---- MODULE Spec2Model ----
(***************************************************************************)
(* Install Bridge: the core module (src/core.js) as a state machine.       *)
(*                                                                         *)
(* The core is a set of pure functions.  Each function is an operator      *)
(* translated from its code; each action is one call of an exported        *)
(* function on an input drawn from a bounded set, and records the call     *)
(* and what it returned.                                                   *)
(*                                                                         *)
(* JavaScript values are tagged records; strings are TLA+ strings, so      *)
(* messages, URLs, user agents and JSON texts are the real texts.          *)
(***************************************************************************)
EXTENDS Integers, Sequences, FiniteSets, TLC

VARIABLES call, result, files

vars == <<call, result, files>>

(***************************************************************************)
(* Bounds of the model.                                                    *)
(***************************************************************************)
\* largest number of entries of a generated installers mapping
MaxKeys == 2
\* largest number of fragments a generated user agent is made of
MaxFragments == 2

(***************************************************************************)
(* JavaScript values.                                                      *)
(***************************************************************************)
Undef == [t |-> "undefined"]
Null == [t |-> "null"]
Bool(b) == [t |-> "boolean", b |-> b]
Num(n) == [t |-> "number", n |-> n]
Str(s) == [t |-> "string", s |-> s]
\* an object is its own properties in Object.keys order
Obj(props) == [t |-> "object", props |-> props]
Arr(elems) == [t |-> "array", elems |-> elems]

Prop(k, v) == [k |-> k, v |-> v]

\* the typeof operator
typeof(v) ==
  CASE v.t = "undefined" -> "undefined"
    [] v.t = "null" -> "object"
    [] v.t = "boolean" -> "boolean"
    [] v.t = "number" -> "number"
    [] v.t = "string" -> "string"
    [] v.t = "object" -> "object"
    [] v.t = "array" -> "object"

\* ToBoolean: what !v, v || w and if (v) test
Truthy(v) ==
  CASE v.t = "undefined" -> FALSE
    [] v.t = "null" -> FALSE
    [] v.t = "boolean" -> v.b
    [] v.t = "number" -> v.n # 0
    [] v.t = "string" -> v.s # ""
    [] v.t = "object" -> TRUE
    [] v.t = "array" -> TRUE

\* absent: the property is not there (undefined) or null
Nullish(v) == v \in {Undef, Null}

\* v || w
Or(v, w) == IF Truthy(v) THEN v ELSE w

\* Object.keys(v) of an object or an array
ObjectKeys(v) ==
  CASE v.t = "object" -> [i \in 1..Len(v.props) |-> v.props[i].k]
    [] v.t = "array" -> [i \in 1..Len(v.elems) |-> ToString(i - 1)]
    [] OTHER -> <<>>

\* v[key]: an own property of an object, an element of an array, else undefined
Get(v, key) ==
  CASE v.t = "object" ->
         IF \E i \in 1..Len(v.props) : v.props[i].k = key
         THEN v.props[CHOOSE i \in 1..Len(v.props) : v.props[i].k = key].v
         ELSE Undef
    [] v.t = "array" ->
         IF \E i \in 1..Len(v.elems) : ToString(i - 1) = key
         THEN v.elems[CHOOSE i \in 1..Len(v.elems) : ToString(i - 1) = key]
         ELSE Undef
    [] OTHER -> Undef

(***************************************************************************)
(* Strings.                                                                *)
(***************************************************************************)
Char(s, i) == SubSeq(s, i, i)

\* String.prototype.includes
includes(s, sub) ==
  \E i \in 1..(Len(s) - Len(sub) + 1) : SubSeq(s, i, i + Len(sub) - 1) = sub

startsWith(s, prefix) ==
  Len(prefix) <= Len(s) /\ SubSeq(s, 1, Len(prefix)) = prefix

\* Array.prototype.includes on a sequence
SeqIncludes(seq, x) == \E i \in 1..Len(seq) : seq[i] = x

UpperLetters == "ABCDEFGHIJKLMNOPQRSTUVWXYZ"
LowerLetters == "abcdefghijklmnopqrstuvwxyz"
Digits == "0123456789"

IsUpper(c) == \E i \in 1..Len(UpperLetters) : Char(UpperLetters, i) = c
IsLower(c) == \E i \in 1..Len(LowerLetters) : Char(LowerLetters, i) = c
IsAlpha(c) == IsUpper(c) \/ IsLower(c)
IsDigit(c) == \E i \in 1..Len(Digits) : Char(Digits, i) = c

LowerOf(c) ==
  IF IsUpper(c)
  THEN Char(LowerLetters, CHOOSE i \in 1..Len(UpperLetters) : Char(UpperLetters, i) = c)
  ELSE c

RECURSIVE toLowerCase(_)
\* String.prototype.toLowerCase on ASCII text
toLowerCase(s) ==
  IF s = "" THEN ""
  ELSE LowerOf(Char(s, 1)) \o toLowerCase(SubSeq(s, 2, Len(s)))


RECURSIVE IndexOfFrom(_, _, _)
\* the first position >= i of s holding one of the characters of chars, else 0
IndexOfFrom(s, chars, i) ==
  IF i > Len(s) THEN 0
  ELSE IF includes(chars, Char(s, i)) THEN i
  ELSE IndexOfFrom(s, chars, i + 1)

RECURSIVE LastIndexOf(_, _, _)
\* the last position <= i of s holding character c, else 0
LastIndexOf(s, c, i) ==
  IF i < 1 THEN 0
  ELSE IF Char(s, i) = c THEN i
  ELSE LastIndexOf(s, c, i - 1)

RECURSIVE TrimLeft(_)
TrimLeft(s) ==
  IF s # "" /\ Char(s, 1) = " " THEN TrimLeft(SubSeq(s, 2, Len(s))) ELSE s

RECURSIVE TrimRight(_)
TrimRight(s) ==
  IF s # "" /\ Char(s, Len(s)) = " " THEN TrimRight(SubSeq(s, 1, Len(s) - 1)) ELSE s

(***************************************************************************)
(* new URL(value) without a base, as far as it decides success or failure: *)
(* the scheme, and for a hierarchical URL the host and the port.  IPv6     *)
(* literals and percent-encoded hosts are left out.                        *)
(***************************************************************************)
SpecialSchemes == {"http", "https", "ws", "wss", "ftp", "file"}

ForbiddenHostChars == " #/:<>?@[\\]^|%"

IsSchemeChar(c) == IsAlpha(c) \/ IsDigit(c) \/ includes("+-.", c)

ValidScheme(scheme) ==
  /\ scheme # ""
  /\ IsAlpha(Char(scheme, 1))
  /\ \A i \in 2..Len(scheme) : IsSchemeChar(Char(scheme, i))

RECURSIVE SkipSlashes(_)
SkipSlashes(s) ==
  IF s # "" /\ includes("/\\", Char(s, 1)) THEN SkipSlashes(SubSeq(s, 2, Len(s))) ELSE s

\* the authority a text starts with: up to the first / \ ? or #
AuthorityOf(s) ==
  LET stop == IndexOfFrom(s, "/\\?#", 1)
  IN IF stop = 0 THEN s ELSE SubSeq(s, 1, stop - 1)

\* host[:port] of an authority: the credentials before the last @ are dropped
HostPortOf(authority) ==
  SubSeq(authority, LastIndexOf(authority, "@", Len(authority)) + 1, Len(authority))

HostOf(hostport) ==
  LET colon == LastIndexOf(hostport, ":", Len(hostport))
  IN IF colon = 0 THEN hostport ELSE SubSeq(hostport, 1, colon - 1)

PortOf(hostport) ==
  LET colon == LastIndexOf(hostport, ":", Len(hostport))
  IN IF colon = 0 THEN "" ELSE SubSeq(hostport, colon + 1, Len(hostport))

ValidHost(host) == \A i \in 1..Len(host) : ~includes(ForbiddenHostChars, Char(host, i))

ValidPort(port) == Len(port) <= 5 /\ \A i \in 1..Len(port) : IsDigit(Char(port, i))

\* whether new URL(text) returns (TRUE) or throws (FALSE)
URLParses(text) ==
  LET input == TrimRight(TrimLeft(text))
      colon == IndexOfFrom(input, ":", 1)
      scheme == toLowerCase(SubSeq(input, 1, colon - 1))
      rest == SubSeq(input, colon + 1, Len(input))
      hostport == HostPortOf(AuthorityOf(SkipSlashes(rest)))
      opaquehost == HostPortOf(AuthorityOf(SubSeq(rest, 3, Len(rest))))
  IN /\ colon > 1
     /\ ValidScheme(scheme)
     /\ IF scheme = "file"
        THEN TRUE
        ELSE IF scheme \in SpecialSchemes
        THEN /\ HostOf(hostport) # ""
             /\ ValidHost(HostOf(hostport))
             /\ ValidPort(PortOf(hostport))
        ELSE startsWith(rest, "//") =>
               /\ ValidHost(HostOf(opaquehost))
               /\ ValidPort(PortOf(opaquehost))

(***************************************************************************)
(* src/core.js                                                             *)
(***************************************************************************)
\* the detector-only identifier let in as an installers key
PLATFORM_ORDER_WithUnknown == <<"darwin", "win32", "linux", "unknown">>

PLATFORM_ORDER == <<"darwin", "win32", "linux">>

isValidURL(value) ==
  IF typeof(value) # "string" THEN FALSE ELSE URLParses(value.s)

\* typeof alone, which null passes
NotAnObject_TypeofOnly(config) == typeof(config) # "object"

\* the test of line 31: the candidate is not a non-null object
NotAnObject(config) == ~Truthy(config) \/ typeof(config) # "object"

\* presence alone, which a non-string name passes
NameErrors_PresenceOnly(config) ==
  IF ~Truthy(Get(config, "name"))
  THEN <<"name is required and must be a string">>
  ELSE <<>>

\* lines 35-37
NameErrors(config) ==
  IF ~Truthy(Get(config, "name")) \/ typeof(Get(config, "name")) # "string"
  THEN <<"name is required and must be a string">>
  ELSE <<>>

\* else-if: the URL of an invalid platform is not looked at
PlatformErrors_ElseIf(installers, platform) ==
  IF ~SeqIncludes(PLATFORM_ORDER, platform)
  THEN <<"invalid platform: " \o platform \o " (must be darwin, win32, or linux)">>
  ELSE IF ~isValidURL(Get(installers, platform))
  THEN <<"installer for " \o platform \o " must be a valid HTTP(S) URL">>
  ELSE <<>>

\* lines 49-60: the body of the forEach callback for one key
PlatformErrors(installers, platform) ==
  (IF ~SeqIncludes(PLATFORM_ORDER, platform)
   THEN <<"invalid platform: " \o platform \o " (must be darwin, win32, or linux)">>
   ELSE <<>>)
  \o
  (IF ~isValidURL(Get(installers, platform))
   THEN <<"installer for " \o platform \o " must be a valid HTTP(S) URL">>
   ELSE <<>>)

RECURSIVE ForEachPlatform(_, _)
\* lines 48-61: platforms.forEach, in the order of Object.keys
ForEachPlatform(installers, platforms) ==
  IF platforms = <<>> THEN <<>>
  ELSE PlatformErrors(installers, Head(platforms))
       \o ForEachPlatform(installers, Tail(platforms))

\* no else: the keys of a missing installers are counted too
InstallerErrors_NoElse(config) ==
  LET installers == Get(config, "installers")
      platforms == ObjectKeys(installers)
  IN (IF ~Truthy(installers) \/ typeof(installers) # "object"
      THEN <<"installers is required and must be an object">>
      ELSE <<>>)
     \o (IF Len(platforms) = 0
         THEN <<"at least one installer platform must be specified">>
         ELSE <<>>)
     \o ForEachPlatform(installers, platforms)

\* lines 39-62
InstallerErrors(config) ==
  LET installers == Get(config, "installers")
      platforms == ObjectKeys(installers)
  IN IF ~Truthy(installers) \/ typeof(installers) # "object"
     THEN <<"installers is required and must be an object">>
     ELSE (IF Len(platforms) = 0
           THEN <<"at least one installer platform must be specified">>
           ELSE <<>>)
          \o ForEachPlatform(installers, platforms)

\* valid is taken from the installers errors alone
validateConfig_ValidBeforeName(config) ==
  IF NotAnObject(config)
  THEN [valid |-> FALSE, errors |-> <<"Config must be an object">>]
  ELSE [valid |-> Len(InstallerErrors(config)) = 0,
        errors |-> NameErrors(config) \o InstallerErrors(config)]

\* the homepage, when there is one, is checked like an installer
validateConfig_ChecksHomepage(config) ==
  IF NotAnObject(config)
  THEN [valid |-> FALSE, errors |-> <<"Config must be an object">>]
  ELSE LET errors == NameErrors(config) \o InstallerErrors(config)
                     \o (IF Get(config, "homepage") # Undef
                            /\ ~isValidURL(Get(config, "homepage"))
                         THEN <<"homepage must be a valid HTTP(S) URL">>
                         ELSE <<>>)
       IN [valid |-> Len(errors) = 0, errors |-> errors]

validateConfig(config) ==
  IF NotAnObject(config)
  THEN [valid |-> FALSE, errors |-> <<"Config must be an object">>]
  ELSE LET errors == NameErrors(config) \o InstallerErrors(config)
       IN [valid |-> Len(errors) = 0, errors |-> errors]

\* the win rule tried first
detectOS_WinFirst(userAgent) ==
  IF ~Truthy(userAgent) THEN "unknown"
  ELSE LET ua == toLowerCase(userAgent.s)
       IN IF includes(ua, "win")
          THEN "win32"
          ELSE IF \/ includes(ua, "mac")
                  \/ includes(ua, "darwin")
                  \/ includes(ua, "iphone")
                  \/ includes(ua, "ipad")
          THEN "darwin"
          ELSE IF includes(ua, "linux") \/ includes(ua, "android")
          THEN "linux"
          ELSE "unknown"

detectOS(userAgent) ==
  IF ~Truthy(userAgent) THEN "unknown"
  ELSE LET ua == toLowerCase(userAgent.s)
       IN IF \/ includes(ua, "mac")
             \/ includes(ua, "darwin")
             \/ includes(ua, "iphone")
             \/ includes(ua, "ipad")
          THEN "darwin"
          ELSE IF includes(ua, "linux") \/ includes(ua, "android")
          THEN "linux"
          ELSE IF includes(ua, "win")
          THEN "win32"
          ELSE "unknown"

\* homepage tried before fallback
getInstallTarget_HomepageFirst(config, os) ==
  LET installers == Or(Get(config, "installers"), Obj(<<>>))
  IN IF ~Truthy(Get(installers, os))
     THEN [available |-> FALSE,
           platform |-> os,
           fallback |-> Or(Or(Get(config, "homepage"), Get(config, "fallback")), Null)]
     ELSE [available |-> TRUE,
           platform |-> os,
           url |-> Get(installers, os)]

getInstallTarget(config, os) ==
  LET installers == Or(Get(config, "installers"), Obj(<<>>))
  IN IF ~Truthy(Get(installers, os))
     THEN [available |-> FALSE,
           platform |-> os,
           fallback |-> Or(Or(Get(config, "fallback"), Get(config, "homepage")), Null)]
     ELSE [available |-> TRUE,
           platform |-> os,
           url |-> Get(installers, os)]

\* what a read of a property of undefined or null throws
TypeError(message) == [threw |-> "TypeError", message |-> message]

Raised(r) == "threw" \in DOMAIN r

\* Object.values(v)
ObjectValues(v) ==
  CASE v.t = "object" -> [i \in 1..Len(v.props) |-> v.props[i].v]
    [] v.t = "array" -> v.elems
    [] v.t = "string" -> [i \in 1..Len(v.s) |-> Str(Char(v.s, i))]
    [] OTHER -> <<>>

RECURSIVE FirstInOrder(_, _)
\* lines 103-105: the loop over the platforms, left at the first truthy entry
FirstInOrder(installers, platforms) ==
  IF platforms = <<>> THEN Undef
  ELSE IF Truthy(Get(installers, Head(platforms)))
  THEN Get(installers, Head(platforms))
  ELSE FirstInOrder(installers, Tail(platforms))

\* the first value of the mapping, whatever its platform
getFirstInstaller_KeyOrder(installers) ==
  LET given == IF installers = Undef THEN Obj(<<>>) ELSE installers
  IN IF given = Null
     THEN TypeError("Cannot read properties of null (reading 'darwin')")
     ELSE Or(IF ObjectValues(given) = <<>> THEN Undef ELSE ObjectValues(given)[1], Null)

\* lines 102-107; the default of the parameter stands in for undefined only
getFirstInstaller(installers) ==
  LET given == IF installers = Undef THEN Obj(<<>>) ELSE installers
  IN IF given = Null
     THEN TypeError("Cannot read properties of null (reading 'darwin')")
     ELSE IF Truthy(FirstInOrder(given, PLATFORM_ORDER))
     THEN FirstInOrder(given, PLATFORM_ORDER)
     ELSE Or(IF ObjectValues(given) = <<>> THEN Undef ELSE ObjectValues(given)[1], Null)

RECURSIVE String(_)
\* the text a template literal interpolates for a value (ToString)
String(v) ==
  CASE v.t = "undefined" -> "undefined"
    [] v.t = "null" -> "null"
    [] v.t = "boolean" -> (IF v.b THEN "true" ELSE "false")
    [] v.t = "number" -> ToString(v.n)
    [] v.t = "string" -> v.s
    [] v.t = "object" -> "[object Object]"
    [] v.t = "array" ->
         IF v.elems = <<>> THEN ""
         ELSE (IF Head(v.elems) \in {Undef, Null} THEN "" ELSE String(Head(v.elems)))
              \o (IF Len(v.elems) = 1 THEN ""
                  ELSE "," \o String(Arr(Tail(v.elems))))

\* the download links are written without their scheme
createTemplate_NoScheme(appName) ==
  LET name == IF appName = Undef THEN Str("MyApp") ELSE appName
      base == "github.com/user/repo/releases/latest/download/" \o String(name)
  IN Obj(<<Prop("name", name),
           Prop("installers",
                Obj(<<Prop("darwin", Str(base \o "-macOS.dmg")),
                      Prop("win32", Str(base \o "-windows.exe")),
                      Prop("linux", Str(base \o "-linux.AppImage"))>>)),
           Prop("homepage", Str("https://github.com/user/repo")),
           Prop("fallback", Str("https://github.com/user/repo/releases")),
           Prop("badge", Obj(<<Prop("label", Str("Install")),
                               Prop("color", Str("#0366d6")),
                               Prop("style", Str("flat"))>>))>>)

\* lines 228-244; the default of the parameter stands in for undefined
createTemplate(appName) ==
  LET name == IF appName = Undef THEN Str("MyApp") ELSE appName
      base == "https://github.com/user/repo/releases/latest/download/" \o String(name)
  IN Obj(<<Prop("name", name),
           Prop("installers",
                Obj(<<Prop("darwin", Str(base \o "-macOS.dmg")),
                      Prop("win32", Str(base \o "-windows.exe")),
                      Prop("linux", Str(base \o "-linux.AppImage"))>>)),
           Prop("homepage", Str("https://github.com/user/repo")),
           Prop("fallback", Str("https://github.com/user/repo/releases")),
           Prop("badge", Obj(<<Prop("label", Str("Install")),
                               Prop("color", Str("#0366d6")),
                               Prop("style", Str("flat"))>>))>>)

\* .length of a value: strings and arrays have one
LengthOf(v) ==
  CASE v.t = "string" -> Num(Len(v.s))
    [] v.t = "array" -> Num(Len(v.elems))
    [] OTHER -> Undef

\* what arithmetic on undefined gives
NaN == [t |-> "NaN"]

\* the text of a number in a template literal
NumberText(v) == IF v = NaN THEN "NaN" ELSE ToString(v.n)

\* the text of a + b / 2, which has a fraction when b is odd
HalfText(a, b) ==
  IF a = NaN \/ b = NaN THEN "NaN"
  ELSE ToString(a.n + (b.n \div 2)) \o (IF b.n % 2 = 0 THEN "" ELSE ".5")

\* line 140
labelWidth(label) ==
  IF LengthOf(label) = Undef THEN NaN ELSE Num(LengthOf(label).n * 6 + 10)

\* the name is measured like the label
nameWidth_LikeLabel(appName) ==
  IF LengthOf(appName) = Undef THEN NaN ELSE Num(LengthOf(appName).n * 6 + 10)

\* line 141
nameWidth(appName) ==
  IF LengthOf(appName) = Undef THEN NaN ELSE Num(LengthOf(appName).n * 7 + 10)

\* line 142
totalWidth(lw, nw) == IF lw = NaN \/ nw = NaN THEN NaN ELSE Num(lw.n + nw.n)

\* lines 145-165
FlatBadge(label, appName, color, lw, nw, tw) ==
          "<svg xmlns=\"http://www.w3.org/2000/svg\" width=\""
          \o NumberText(tw)
          \o "\" height=\"20\">\n"
          \o "  <linearGradient id=\"b\" x2=\"0\" y2=\"100%\">\n"
          \o "    <stop offset=\"0\" stop-color=\"#bbb\" stop-opacity=\".1\"/>\n"
          \o "    <stop offset=\"1\" stop-opacity=\".1\"/>\n"
          \o "  </linearGradient>\n"
          \o "  <clipPath id=\"a\">\n"
          \o "    <rect width=\""
          \o NumberText(tw)
          \o "\" height=\"20\" rx=\"3\" fill=\"#fff\"/>\n"
          \o "  </clipPath>\n"
          \o "  <g clip-path=\"url(#a)\">\n"
          \o "    <path fill=\"#555\" d=\"M0 0h"
          \o NumberText(lw)
          \o "v20H0z\"/>\n"
          \o "    <path fill=\""
          \o String(color)
          \o "\" d=\"M"
          \o NumberText(lw)
          \o " 0h"
          \o NumberText(nw)
          \o "v20H"
          \o NumberText(lw)
          \o "z\"/>\n"
          \o "    <path fill=\"url(#b)\" d=\"M0 0h"
          \o NumberText(tw)
          \o "v20H0z\"/>\n"
          \o "  </g>\n"
          \o "  <g fill=\"#fff\" text-anchor=\"middle\"\n"
          \o "     font-family=\"DejaVu Sans,Verdana,Geneva,sans-serif\" font-size=\"11\">\n"
          \o "    <text x=\""
          \o HalfText(Num(0), lw)
          \o "\" y=\"15\" fill=\"#010101\" fill-opacity=\".3\">"
          \o String(label)
          \o "</text>\n"
          \o "    <text x=\""
          \o HalfText(Num(0), lw)
          \o "\" y=\"14\">"
          \o String(label)
          \o "</text>\n"
          \o "    <text x=\""
          \o HalfText(lw, nw)
          \o "\" y=\"15\" fill=\"#010101\" fill-opacity=\".3\">"
          \o String(appName)
          \o "</text>\n"
          \o "    <text x=\""
          \o HalfText(lw, nw)
          \o "\" y=\"14\">"
          \o String(appName)
          \o "</text>\n"
          \o "  </g>\n"
          \o "</svg>"

\* lines 168-177
PlainBadge(label, appName, color, lw, nw, tw) ==
          "<svg xmlns=\"http://www.w3.org/2000/svg\" width=\""
          \o NumberText(tw)
          \o "\" height=\"20\">\n"
          \o "  <rect width=\""
          \o NumberText(lw)
          \o "\" height=\"20\" fill=\"#555\"/>\n"
          \o "  <rect x=\""
          \o NumberText(lw)
          \o "\" width=\""
          \o NumberText(nw)
          \o "\" height=\"20\" fill=\""
          \o String(color)
          \o "\"/>\n"
          \o "  <text x=\""
          \o HalfText(Num(0), lw)
          \o "\" y=\"14\" fill=\"#fff\"\n"
          \o "        font-family=\"Arial,sans-serif\" font-size=\"11\"\n"
          \o "        text-anchor=\"middle\">"
          \o String(label)
          \o "</text>\n"
          \o "  <text x=\""
          \o HalfText(lw, nw)
          \o "\" y=\"14\" fill=\"#fff\"\n"
          \o "        font-family=\"Arial,sans-serif\" font-size=\"11\"\n"
          \o "        text-anchor=\"middle\">"
          \o String(appName)
          \o "</text>\n"
          \o "</svg>"

\* the badge options are read as they are
BadgeOptions_NoDefault(config) == Get(config, "badge")

\* line 134
BadgeOptions(config) == Or(Get(config, "badge"), Obj(<<>>))

\* lines 133-178
generateBadge(config) ==
  IF Nullish(config)
  THEN TypeError("Cannot read properties of " \o String(config) \o " (reading 'badge')")
  ELSE LET opts == BadgeOptions(config)
       IN IF Nullish(opts)
          THEN TypeError("Cannot read properties of " \o String(opts)
                         \o " (reading 'label')")
          ELSE LET label == Or(Get(opts, "label"), Str("Install"))
                   appName == Get(config, "name")
                   color == Or(Get(opts, "color"), Str("#0366d6"))
                   style == Or(Get(opts, "style"), Str("flat"))
               IN IF Nullish(appName)
                  THEN TypeError("Cannot read properties of " \o String(appName)
                                 \o " (reading 'length')")
                  ELSE LET lw == labelWidth(label)
                           nw == nameWidth(appName)
                       IN IF style = Str("flat")
                          THEN Str(FlatBadge(label, appName, color, lw, nw,
                                             totalWidth(lw, nw)))
                          ELSE Str(PlainBadge(label, appName, color, lw, nw,
                                              totalWidth(lw, nw)))

\* lines 183-202
generateSnippets(config, badgePath, installURL) ==
  LET path == IF badgePath = Undef THEN Str("./install-badge.svg") ELSE badgePath
      given == IF installURL = Undef THEN Null ELSE installURL
  IN IF Nullish(config)
     THEN TypeError("Cannot read properties of " \o String(config) \o " (reading '"
                    \o (IF Truthy(given) THEN "name" ELSE "homepage") \o "')")
     ELSE LET targetURL ==
                IF Truthy(given) THEN given
                ELSE IF Truthy(Get(config, "homepage")) THEN Get(config, "homepage")
                ELSE getFirstInstaller(Get(config, "installers"))
          IN IF Raised(targetURL) THEN targetURL
             ELSE [markdown |->
                     "[![Install " \o String(Get(config, "name")) \o "]("
                     \o String(path) \o ")](" \o String(targetURL) \o ")",
                   html |->
                     "<a href=\"" \o String(targetURL) \o "\">\n  <img src=\""
                     \o String(path) \o "\" alt=\"Install "
                     \o String(Get(config, "name")) \o "\" />\n</a>"]

(***************************************************************************)
(* JSON.stringify and JSON.parse over texts.  Left out: numbers with a     *)
(* fraction or an exponent, the escapes \b and \uXXXX, and keys that are   *)
(* array indices (which Object.keys would move to the front).              *)
(***************************************************************************)
RECURSIVE Quote(_)
\* the characters of a string as they stand between the quotes of its JSON
\* text; those up to the next one to escape are taken in one piece
Quote(s) ==
  LET stops == {j \in 1..Len(s) : includes("\"\\\n\t", Char(s, j))}
      stop == CHOOSE j \in stops : \A k \in stops : j <= k
  IN IF stops = {} THEN s
     ELSE SubSeq(s, 1, stop - 1)
          \o (CASE Char(s, stop) = "\"" -> "\\\""
                [] Char(s, stop) = "\\" -> "\\\\"
                [] Char(s, stop) = "\n" -> "\\n"
                [] Char(s, stop) = "\t" -> "\\t")
          \o Quote(SubSeq(s, stop + 1, Len(s)))

RECURSIVE JSONstringify(_)
RECURSIVE StringifyMembers(_, _)
RECURSIVE StringifyElements(_, _)

\* the members of an object, comma separated; undefined ones are skipped
StringifyMembers(props, first) ==
  IF props = <<>> THEN ""
  ELSE IF Head(props).v = Undef THEN StringifyMembers(Tail(props), first)
  ELSE (IF first THEN "" ELSE ",")
       \o "\"" \o Quote(Head(props).k) \o "\":" \o JSONstringify(Head(props).v)
       \o StringifyMembers(Tail(props), FALSE)

\* the elements of an array, comma separated; undefined ones become null
StringifyElements(elems, first) ==
  IF elems = <<>> THEN ""
  ELSE (IF first THEN "" ELSE ",")
       \o (IF Head(elems) = Undef THEN "null" ELSE JSONstringify(Head(elems)))
       \o StringifyElements(Tail(elems), FALSE)

\* JSON.stringify(v) of a value that is not undefined
JSONstringify(v) ==
  CASE v.t = "null" -> "null"
    [] v.t = "boolean" -> IF v.b THEN "true" ELSE "false"
    [] v.t = "number" -> ToString(v.n)
    [] v.t = "string" -> "\"" \o Quote(v.s) \o "\""
    [] v.t = "array" -> "[" \o StringifyElements(v.elems, TRUE) \o "]"
    [] v.t = "object" -> "{" \o StringifyMembers(v.props, TRUE) \o "}"

RECURSIVE JSONstringifyIndented(_, _)
RECURSIVE IndentedMembers(_, _, _)
RECURSIVE IndentedElements(_, _, _)

\* the members of an object, one a line at the indentation inner
IndentedMembers(props, inner, first) ==
  IF props = <<>> THEN ""
  ELSE IF Head(props).v = Undef THEN IndentedMembers(Tail(props), inner, first)
  ELSE (IF first THEN "" ELSE ",\n")
       \o inner \o "\"" \o Quote(Head(props).k) \o "\": "
       \o JSONstringifyIndented(Head(props).v, inner)
       \o IndentedMembers(Tail(props), inner, FALSE)

\* the elements of an array, one a line at the indentation inner
IndentedElements(elems, inner, first) ==
  IF elems = <<>> THEN ""
  ELSE (IF first THEN "" ELSE ",\n")
       \o inner
       \o (IF Head(elems) = Undef THEN "null"
           ELSE JSONstringifyIndented(Head(elems), inner))
       \o IndentedElements(Tail(elems), inner, FALSE)

\* JSON.stringify(v, null, 2) of a value written at the indentation indent
JSONstringifyIndented(v, indent) ==
  CASE v.t = "array" ->
         IF v.elems = <<>> THEN "[]"
         ELSE "[\n" \o IndentedElements(v.elems, indent \o "  ", TRUE)
              \o "\n" \o indent \o "]"
    [] v.t = "object" ->
         IF IndentedMembers(v.props, indent \o "  ", TRUE) = "" THEN "{}"
         ELSE "{\n" \o IndentedMembers(v.props, indent \o "  ", TRUE)
              \o "\n" \o indent \o "}"
    [] OTHER -> JSONstringify(v)

\* a parse step: the value read and the position after it, or where it failed
Read(value, next) == [ok |-> TRUE, value |-> value, next |-> next]
Fail(at) == [ok |-> FALSE, at |-> at]

RECURSIVE SkipWS(_, _)
SkipWS(text, i) ==
  IF i <= Len(text) /\ includes(" \n\t\r", Char(text, i)) THEN SkipWS(text, i + 1) ELSE i

RECURSIVE ScanString(_, _, _)
\* the rest of a string literal from position i on, acc being what was read;
\* the characters up to the next quote, backslash or control character are
\* taken in one piece
ScanString(text, i, acc) ==
  LET stops == {j \in i..Len(text) : includes("\"\\\n\t\r", Char(text, j))}
      stop == CHOOSE j \in stops : \A k \in stops : j <= k
      read == acc \o SubSeq(text, i, stop - 1)
  IN IF stops = {} THEN Fail(Len(text) + 1)
     ELSE IF Char(text, stop) = "\"" THEN Read(Str(read), stop + 1)
     ELSE IF includes("\n\t\r", Char(text, stop)) THEN Fail(stop)
     ELSE IF stop + 1 > Len(text) THEN Fail(stop + 1)
     ELSE IF includes("\"\\/", Char(text, stop + 1))
     THEN ScanString(text, stop + 2, read \o Char(text, stop + 1))
     ELSE IF Char(text, stop + 1) = "n" THEN ScanString(text, stop + 2, read \o "\n")
     ELSE IF Char(text, stop + 1) = "t" THEN ScanString(text, stop + 2, read \o "\t")
     ELSE IF Char(text, stop + 1) = "r" THEN ScanString(text, stop + 2, read \o "\r")
     ELSE IF Char(text, stop + 1) = "f" THEN ScanString(text, stop + 2, read \o "\f")
     ELSE Fail(stop + 1)

DigitValue(c) == (CHOOSE i \in 1..Len(Digits) : Char(Digits, i) = c) - 1

RECURSIVE ScanDigits(_, _, _)
\* the digits from position i on, n being the number read so far
ScanDigits(text, i, n) ==
  IF i <= Len(text) /\ IsDigit(Char(text, i))
  THEN ScanDigits(text, i + 1, 10 * n + DigitValue(Char(text, i)))
  ELSE Read(Num(n), i)

\* an integer literal at position i: -? (0 | [1-9][0-9]*)
ScanNumber(text, i) ==
  LET neg == Char(text, i) = "-"
      j == IF neg THEN i + 1 ELSE i
      digits == IF j <= Len(text) /\ Char(text, j) = "0"
                THEN Read(Num(0), j + 1)
                ELSE ScanDigits(text, j, 0)
  IN IF j > Len(text) \/ ~IsDigit(Char(text, j)) THEN Fail(j)
     ELSE IF neg THEN Read(Num(0 - digits.value.n), digits.next)
     ELSE digits

HasKey(m, k) == \E i \in 1..Len(m) : m[i].k = k

\* obj[key] = value as JSON.parse does it: a key met again keeps its place
Put(props, key, value) ==
  IF HasKey(props, key)
  THEN [i \in 1..Len(props) |-> IF props[i].k = key THEN Prop(key, value) ELSE props[i]]
  ELSE Append(props, Prop(key, value))

LiteralAt(text, i, literal) ==
  i + Len(literal) - 1 <= Len(text) /\ SubSeq(text, i, i + Len(literal) - 1) = literal

RECURSIVE ParseValue(_, _)
RECURSIVE ParseMembers(_, _, _)
RECURSIVE ParseElements(_, _, _)

\* the members of an object from position i (a key is expected), props read so far
ParseMembers(text, i, props) ==
  LET k == SkipWS(text, i)
      key == ScanString(text, k + 1, "")
      colon == SkipWS(text, key.next)
      val == ParseValue(text, colon + 1)
      after == SkipWS(text, val.next)
  IN IF k > Len(text) \/ Char(text, k) # "\"" THEN Fail(k)
     ELSE IF ~key.ok THEN key
     ELSE IF colon > Len(text) \/ Char(text, colon) # ":" THEN Fail(colon)
     ELSE IF ~val.ok THEN val
     ELSE IF after > Len(text) THEN Fail(after)
     ELSE IF Char(text, after) = ","
     THEN ParseMembers(text, after + 1, Put(props, key.value.s, val.value))
     ELSE IF Char(text, after) = "}"
     THEN Read(Obj(Put(props, key.value.s, val.value)), after + 1)
     ELSE Fail(after)

\* the elements of an array from position i (a value is expected), elems read so far
ParseElements(text, i, elems) ==
  LET val == ParseValue(text, i)
      after == SkipWS(text, val.next)
  IN IF ~val.ok THEN val
     ELSE IF after > Len(text) THEN Fail(after)
     ELSE IF Char(text, after) = ","
     THEN ParseElements(text, after + 1, Append(elems, val.value))
     ELSE IF Char(text, after) = "]"
     THEN Read(Arr(Append(elems, val.value)), after + 1)
     ELSE Fail(after)

\* the value that starts at or after position i
ParseValue(text, i) ==
  LET k == SkipWS(text, i)
      c == Char(text, k)
      inner == SkipWS(text, k + 1)
  IN IF k > Len(text) THEN Fail(k)
     ELSE IF c = "{"
     THEN IF inner <= Len(text) /\ Char(text, inner) = "}"
          THEN Read(Obj(<<>>), inner + 1)
          ELSE ParseMembers(text, k + 1, <<>>)
     ELSE IF c = "["
     THEN IF inner <= Len(text) /\ Char(text, inner) = "]"
          THEN Read(Arr(<<>>), inner + 1)
          ELSE ParseElements(text, k + 1, <<>>)
     ELSE IF c = "\"" THEN ScanString(text, k + 1, "")
     ELSE IF c = "-" \/ IsDigit(c) THEN ScanNumber(text, k)
     ELSE IF LiteralAt(text, k, "true") THEN Read(Bool(TRUE), k + 4)
     ELSE IF LiteralAt(text, k, "false") THEN Read(Bool(FALSE), k + 5)
     ELSE IF LiteralAt(text, k, "null") THEN Read(Null, k + 4)
     ELSE Fail(k)

\* the message of the SyntaxError for a text that is wrong at position at
SyntaxErrorMessage(text, at) ==
  IF at > Len(text) THEN "Unexpected end of JSON input"
  ELSE IF Char(text, at) = "\""
  THEN "Unexpected string in JSON at position " \o ToString(at - 1)
  ELSE IF IsDigit(Char(text, at)) \/ Char(text, at) = "-"
  THEN "Unexpected number in JSON at position " \o ToString(at - 1)
  ELSE "Unexpected token " \o Char(text, at) \o " in JSON at position " \o ToString(at - 1)

\* JSON.parse(text): the value, or the message of the SyntaxError it throws
JSONparse(text) ==
  LET Parsed(val) ==
        IF ~val.ok THEN [ok |-> FALSE, message |-> SyntaxErrorMessage(text, val.at)]
        ELSE IF SkipWS(text, val.next) <= Len(text)
        THEN [ok |-> FALSE,
              message |-> SyntaxErrorMessage(text, SkipWS(text, val.next))]
        ELSE [ok |-> TRUE, value |-> val.value]
  IN Parsed(ParseValue(text, 1))

\* the message of the SyntaxError is passed on without the prefix
parseConfig_BareMessage(jsonString) ==
  LET parsed == JSONparse(jsonString)
  IN IF ~parsed.ok
     THEN [success |-> FALSE, errors |-> <<parsed.message>>]
     ELSE IF ~validateConfig(parsed.value).valid
     THEN [success |-> FALSE, errors |-> validateConfig(parsed.value).errors]
     ELSE [success |-> TRUE, config |-> parsed.value]

\* only the first error of the validation is passed on
parseConfig_FirstErrorOnly(jsonString) ==
  LET parsed == JSONparse(jsonString)
  IN IF ~parsed.ok
     THEN [success |-> FALSE, errors |-> <<"Invalid JSON: " \o parsed.message>>]
     ELSE IF ~validateConfig(parsed.value).valid
     THEN [success |-> FALSE, errors |-> <<validateConfig(parsed.value).errors[1]>>]
     ELSE [success |-> TRUE, config |-> parsed.value]

\* src/core.js lines 207-223; the catch is the branch of a failed JSON.parse
parseConfig(jsonString) ==
  LET Validated(config, validation) ==
        IF ~validation.valid
        THEN [success |-> FALSE, errors |-> validation.errors]
        ELSE [success |-> TRUE, config |-> config]
      Parsed(parsed) ==
        IF ~parsed.ok
        THEN [success |-> FALSE, errors |-> <<"Invalid JSON: " \o parsed.message>>]
        ELSE Validated(parsed.value, validateConfig(parsed.value))
  IN Parsed(JSONparse(jsonString))

(***************************************************************************)
(* Buffer.from(text, 'base64') and buf.toString('utf8') over ASCII bytes.  *)
(* The decoder passes over the characters outside the alphabet and stops   *)
(* at the first '='.  A byte outside ASCII text, which utf8 decoding turns *)
(* into a replacement character, is written '?'.                           *)
(***************************************************************************)
\* the characters of the codes 32 to 95 and 97 to 126, in the order of their
\* codes; the grave accent (96) cannot be written in a string of this module
AsciiLow == " !\"#$%&'()*+,-./0123456789:;<=>?@ABCDEFGHIJKLMNOPQRSTUVWXYZ[\\]^_"
AsciiHigh == "abcdefghijklmnopqrstuvwxyz{|}~"

PlaceIn(s, c) == CHOOSE i \in 1..Len(s) : Char(s, i) = c

\* the code of a character
ByteOf(c) ==
  CASE c = "\t" -> 9
    [] c = "\n" -> 10
    [] c = "\r" -> 13
    [] includes(AsciiLow, c) -> PlaceIn(AsciiLow, c) + 31
    [] OTHER -> PlaceIn(AsciiHigh, c) + 96

\* the character of a code
CharOf(byte) ==
  CASE byte = 9 -> "\t"
    [] byte = 10 -> "\n"
    [] byte = 13 -> "\r"
    [] byte \in 32..95 -> Char(AsciiLow, byte - 31)
    [] byte \in 97..126 -> Char(AsciiHigh, byte - 96)
    [] OTHER -> "?"

Base64Alphabet == UpperLetters \o LowerLetters \o Digits \o "+/"

\* the six bits of a character of the alphabet, or of its URL-safe variant
SextetOf(c) ==
  CASE c = "-" -> 62
    [] c = "_" -> 63
    [] OTHER -> PlaceIn(Base64Alphabet, c) - 1

IsBase64Char(c) == includes(Base64Alphabet, c) \/ c = "-" \/ c = "_"

RECURSIVE LegalChars(_, _, _)
\* the characters of s[lo..hi] that belong to the alphabet
LegalChars(s, lo, hi) ==
  IF lo > hi THEN ""
  ELSE IF lo = hi THEN (IF IsBase64Char(Char(s, lo)) THEN Char(s, lo) ELSE "")
  ELSE LegalChars(s, lo, (lo + hi) \div 2) \o LegalChars(s, (lo + hi) \div 2 + 1, hi)

\* the characters that are decoded: the legal ones before the first '='
Sextets(text) ==
  LET pads == {i \in 1..Len(text) : Char(text, i) = "="}
      stop == IF pads = {} THEN Len(text) + 1
              ELSE CHOOSE i \in pads : \A j \in pads : i <= j
  IN LegalChars(text, 1, stop - 1)

\* buf.length: six bits a character, eight a byte, the rest dropped
BufferLength(sextets) == (Len(sextets) * 6) \div 8

\* buf[k], made of the bits 8k .. 8k+7 of the decoded characters
BufferByte(sextets, k) ==
  LET a == (8 * k) \div 6
      o == (8 * k) % 6
      bits == SextetOf(Char(sextets, a + 1)) * 64 + SextetOf(Char(sextets, a + 2))
  IN (bits \div (2 ^ (4 - o))) % 256

RECURSIVE BufferText(_, _, _)
\* buf.toString('utf8') of the bytes lo .. hi
BufferText(sextets, lo, hi) ==
  IF lo > hi THEN ""
  ELSE IF lo = hi THEN CharOf(BufferByte(sextets, lo))
  ELSE BufferText(sextets, lo, (lo + hi) \div 2)
       \o BufferText(sextets, (lo + hi) \div 2 + 1, hi)

\* the four characters of up to three bytes, padded with '='
Base64Group(bytes) ==
  LET n == Len(bytes)
      b1 == bytes[1]
      b2 == IF n >= 2 THEN bytes[2] ELSE 0
      b3 == IF n >= 3 THEN bytes[3] ELSE 0
      c(v) == Char(Base64Alphabet, v + 1)
  IN c(b1 \div 4)
     \o c((b1 % 4) * 16 + b2 \div 16)
     \o (IF n >= 2 THEN c((b2 % 16) * 4 + b3 \div 64) ELSE "=")
     \o (IF n >= 3 THEN c(b3 % 64) ELSE "=")

RECURSIVE toBase64(_)
\* Buffer.from(text).toString('base64'), as a client encodes a config
toBase64(text) ==
  IF text = "" THEN ""
  ELSE LET n == IF Len(text) < 3 THEN Len(text) ELSE 3
       IN Base64Group([i \in 1..n |-> ByteOf(Char(text, i))])
          \o toBase64(SubSeq(text, n + 1, Len(text)))

RECURSIVE Repeat(_, _)
\* String.prototype.repeat
Repeat(text, n) ==
  IF n = 0 THEN ""
  ELSE IF n % 2 = 1 THEN text \o Repeat(text, n - 1)
  ELSE LET half == Repeat(text, n \div 2) IN half \o half

(***************************************************************************)
(* The HTTP server (src/unnamed/part_001).  A request is what url.parse    *)
(* and the http module hand to the handlers: the method, the pathname, the *)
(* value of the query parameter config and the user-agent header.  What a  *)
(* handler does is the sequence of responses it sends and the sequence of  *)
(* core functions it calls.                                                *)
(***************************************************************************)
\* line 12
MAX_CONFIG_SIZE == 8 * 1024

\* new Error(message), thrown
Error(message) == [threw |-> "Error", message |-> message]

CoreCall(fn, arg) == [fn |-> fn, arg |-> arg]

\* a header value the http module refuses: a character other than a tab and
\* the codes 32 to 126 and 128 to 255
InvalidHeaderChar(text) == includes(text, "\n") \/ includes(text, "\r")

\* lines 18-25: the response written, or what res.writeHead throws
send(status, body, headers) ==
  IF \E k \in DOMAIN headers : InvalidHeaderChar(headers[k])
  THEN TypeError("Invalid character in header content [\""
                 \o (CHOOSE k \in DOMAIN headers : InvalidHeaderChar(headers[k]))
                 \o "\"]")
  ELSE [status |-> status,
        body |-> body,
        headers |-> headers @@ ("X-Content-Type-Options" :> "nosniff")
                            @@ ("Referrer-Policy" :> "no-referrer")]

\* the size of the decoded payload is not looked at
decodeConfig_NoLimit(param) ==
  IF ~Truthy(param) \/ typeof(param) # "string"
  THEN Error("Missing config parameter")
  ELSE Str(BufferText(Sextets(param.s), 0, BufferLength(Sextets(param.s)) - 1))

\* lines 27-38
decodeConfig(param) ==
  LET Decoded(sextets) ==
        IF BufferLength(sextets) > MAX_CONFIG_SIZE
        THEN Error("Config too large")
        ELSE Str(BufferText(sextets, 0, BufferLength(sextets) - 1))
  IN IF ~Truthy(param) \/ typeof(param) # "string"
     THEN Error("Missing config parameter")
     ELSE Decoded(Sextets(param.s))

RECURSIVE join(_, _)
\* Array.prototype.join on texts
join(texts, separator) ==
  IF texts = <<>> THEN ""
  ELSE IF Len(texts) = 1 THEN texts[1]
  ELSE texts[1] \o separator \o join(Tail(texts), separator)

\* the config of a failed parse, which is undefined, is returned
parseConfigFromRequest_NoThrow(req) ==
  LET json == decodeConfig(req.config)
  IN IF Raised(json) THEN [calls |-> <<>>, value |-> json]
     ELSE [calls |-> <<CoreCall("parseConfig", json.s)>>,
           value |-> IF ~parseConfig(json.s).success
                     THEN Undef
                     ELSE parseConfig(json.s).config]

\* lines 40-50: the config, or what is thrown
parseConfigFromRequest(req) ==
  LET Parsed(outcome) ==
        IF ~outcome.success
        THEN Error("Invalid config: " \o join(outcome.errors, ", "))
        ELSE outcome.config
      Decoded(json) ==
        IF Raised(json) THEN [calls |-> <<>>, value |-> json]
        ELSE [calls |-> <<CoreCall("parseConfig", json.s)>>,
              value |-> Parsed(parseConfig(json.s))]
  IN Decoded(decodeConfig(req.config))

\* lines 65-67 and 91-93: what the try block sent, or the 400 of the catch
\* block when it threw
OrCatch(outcome) ==
  IF Raised(outcome)
  THEN <<send(400, outcome.message, "Content-Type" :> "text/plain")>>
  ELSE <<outcome>>

\* lines 56-68
handleBadge(req) ==
  LET Drawn(svg) ==
        IF Raised(svg) THEN svg
        ELSE send(200, svg.s,
                  ("Content-Type" :> "image/svg+xml; charset=utf-8")
                  @@ ("Cache-Control" :> "public, max-age=3600"))
      Parsed(parsed) ==
        IF Raised(parsed.value)
        THEN [sent |-> OrCatch(parsed.value), calls |-> parsed.calls]
        ELSE [sent |-> OrCatch(Drawn(generateBadge(parsed.value))),
              calls |-> parsed.calls \o <<CoreCall("generateBadge", parsed.value)>>]
  IN Parsed(parseConfigFromRequest(req))

\* lines 97-101
platformNames(p) ==
  CASE p = "darwin" -> Str("macOS")
    [] p = "linux" -> Str("Linux")
    [] p = "win32" -> Str("Windows")
    [] OTHER -> Undef

RECURSIVE DownloadLinks(_, _)
\* lines 164-166: platforms.map(...).join('')
DownloadLinks(installers, platforms) ==
  IF platforms = <<>> THEN ""
  ELSE "<a class=\"btn\" href=\"" \o String(Get(installers, Head(platforms)))
       \o "\">Download for " \o String(Or(platformNames(Head(platforms)), Str(Head(platforms))))
       \o "</a>"
       \o DownloadLinks(installers, Tail(platforms))

\* lines 96-173; the arrow of line 168, which is outside ASCII, is written ->
generateFallbackPage(config, detectedOS) ==
  LET installers == Or(Get(config, "installers"), Obj(<<>>))
      platforms == ObjectKeys(installers)
  IN      "<!DOCTYPE html>\n"
          \o "<html lang=\"en\">\n"
          \o "<head>\n"
          \o "<meta charset=\"UTF-8\">\n"
          \o "<meta name=\"viewport\" content=\"width=device-width, initial-scale=1.0\">\n"
          \o "<title>Install "
          \o String(Get(config, "name"))
          \o "</title>\n"
          \o "<style>\n"
          \o "body {\n"
          \o "  font-family: -apple-system,BlinkMacSystemFont,'Segoe UI',Roboto,sans-serif;\n"
          \o "  background:#f5f5f5;\n"
          \o "  display:flex;\n"
          \o "  align-items:center;\n"
          \o "  justify-content:center;\n"
          \o "  min-height:100vh;\n"
          \o "  margin:0;\n"
          \o "  padding:20px;\n"
          \o "}\n"
          \o ".container {\n"
          \o "  background:white;\n"
          \o "  border-radius:8px;\n"
          \o "  box-shadow:0 4px 12px rgba(0,0,0,0.1);\n"
          \o "  max-width:520px;\n"
          \o "  width:100%;\n"
          \o "  padding:40px;\n"
          \o "  text-align:center;\n"
          \o "}\n"
          \o "h1 { margin-bottom:10px; }\n"
          \o ".notice {\n"
          \o "  color:#d73a49;\n"
          \o "  margin-bottom:20px;\n"
          \o "}\n"
          \o "a.btn {\n"
          \o "  display:block;\n"
          \o "  margin:10px 0;\n"
          \o "  padding:14px 20px;\n"
          \o "  background:#0366d6;\n"
          \o "  color:white;\n"
          \o "  text-decoration:none;\n"
          \o "  border-radius:6px;\n"
          \o "  font-weight:500;\n"
          \o "}\n"
          \o "a.btn:hover { background:#0256c1; }\n"
          \o ".footer {\n"
          \o "  margin-top:30px;\n"
          \o "  font-size:14px;\n"
          \o "  color:#666;\n"
          \o "}\n"
          \o "</style>\n"
          \o "</head>\n"
          \o "<body>\n"
          \o "<div class=\"container\">\n"
          \o "<h1>Install "
          \o String(Get(config, "name")) \o "</h1>\n"
          \o (IF detectedOS # "unknown"
              THEN "<p>Detected OS: "
                   \o String(Or(platformNames(detectedOS), Str(detectedOS))) \o "</p>"
              ELSE "")
          \o "\n"
          \o (IF detectedOS # "unknown" /\ ~Truthy(Get(installers, detectedOS))
              THEN "<p class=\"notice\">No installer available for your platform</p>"
              ELSE "")
          \o "\n"
          \o DownloadLinks(installers, platforms)
          \o "\n"
          \o (IF Truthy(Get(config, "homepage"))
              THEN "<div class=\"footer\"><a href=\"" \o String(Get(config, "homepage"))
                   \o "\">Learn more -></a></div>"
              ELSE "")
          \o "\n"
          \o "</div>\n"
          \o "</body>\n"
          \o "</html>"

\* lines 70-94
handleInstall(req) ==
  LET Answered(config, os, target) ==
        IF target.available
        THEN send(302, "", "Location" :> String(target.url))
        ELSE IF Truthy(target.fallback)
        THEN send(302, "", "Location" :> String(target.fallback))
        ELSE send(200, generateFallbackPage(config, os),
                  "Content-Type" :> "text/html; charset=utf-8")
      Parsed(parsed, os) ==
        IF Raised(parsed.value)
        THEN [sent |-> OrCatch(parsed.value), calls |-> parsed.calls]
        ELSE [sent |-> OrCatch(Answered(parsed.value, os,
                                        getInstallTarget(parsed.value, os))),
              calls |-> parsed.calls
                        \o <<CoreCall("detectOS", Or(req.userAgent, Str(""))),
                             CoreCall("getInstallTarget", <<parsed.value, os>>)>>]
  IN Parsed(parseConfigFromRequest(req), detectOS(Or(req.userAgent, Str(""))))

\* lines 175-208
handleRoot(req) ==
  [sent |-> <<send(200,
          "<!DOCTYPE html>\n"
          \o "<html lang=\"en\">\n"
          \o "<head>\n"
          \o "<meta charset=\"UTF-8\">\n"
          \o "<meta name=\"viewport\" content=\"width=device-width, initial-scale=1.0\">\n"
          \o "<title>Install Bridge</title>\n"
          \o "<style>\n"
          \o "body {\n"
          \o "  font-family:-apple-system,BlinkMacSystemFont,'Segoe UI',Roboto,sans-serif;\n"
          \o "  max-width:800px;\n"
          \o "  margin:60px auto;\n"
          \o "  padding:20px;\n"
          \o "  line-height:1.6;\n"
          \o "}\n"
          \o "code { background:#f5f5f5; padding:2px 6px; border-radius:4px; }\n"
          \o "</style>\n"
          \o "</head>\n"
          \o "<body>\n"
          \o "<h1>Install Bridge Server</h1>\n"
          \o "<p>Stateless HTTP interface for Install Bridge.</p>\n"
          \o "<ul>\n"
          \o "<li><code>GET /badge.svg?config=&lt;base64&gt;</code></li>\n"
          \o "<li><code>GET /install?config=&lt;base64&gt;</code></li>\n"
          \o "</ul>\n"
          \o "</body>\n"
          \o "</html>",
                   "Content-Type" :> "text/html; charset=utf-8")>>,
   calls |-> <<>>]

\* lines 213-214: the headers set on every response
CorsHeaders ==
  ("Access-Control-Allow-Origin" :> "*")
  @@ ("Access-Control-Allow-Methods" :> "GET, OPTIONS")

\* lines 210-227
handleRequest(req) ==
  LET WithCors(handled) ==
        [sent |-> [i \in 1..Len(handled.sent) |->
                     [handled.sent[i] EXCEPT !.headers = @ @@ CorsHeaders]],
         calls |-> handled.calls]
  IN WithCors(IF req.method = "OPTIONS"
              THEN [sent |-> <<[status |-> 204, body |-> "", headers |-> <<>>]>>,
                    calls |-> <<>>]
              ELSE IF req.pathname = "/badge.svg" THEN handleBadge(req)
              ELSE IF req.pathname = "/install" THEN handleInstall(req)
              ELSE IF req.pathname = "/" THEN handleRoot(req)
              ELSE [sent |-> <<send(404, "Not Found", "Content-Type" :> "text/plain")>>,
                    calls |-> <<>>])

(***************************************************************************)
(* The command line (src/bin/install-bridge.js).  The files of the current *)
(* directory are a function from the two file names to the text of the     *)
(* file, or to undefined when there is no such file.  A command is one run *)
(* of the process: it ends with the files it leaves, its exit code and     *)
(* what it printed.  The marks before the messages (lines 28 and 33),      *)
(* which are outside ASCII, are written [x] and [v].                       *)
(***************************************************************************)
\* lines 20-21
CONFIG_FILE == "install-bridge.json"
BADGE_FILE == "install-badge.svg"

NoFiles == [name \in {CONFIG_FILE, BADGE_FILE} |-> Undef]

existsSync(fs, path) == fs[path] # Undef

writeFileSync(fs, path, data) == [fs EXCEPT ![path] = Str(data)]

\* lines 27-30: the process ends with code 1, the files as they are
fail(fs, message) ==
  [files |-> fs, exit |-> 1, stdout |-> <<>>, stderr |-> <<"[x] " \o message>>]

\* lines 32-34
log(message) == "[v] " \o message

Exited(outcome) == "exit" \in DOMAIN outcome

\* lines 36-51: the config, or the end of the process
readConfig(fs) ==
  LET Parsed(outcome) ==
        IF ~outcome.success
        THEN fail(fs, "Invalid config:\n- " \o join(outcome.errors, "\n- "))
        ELSE outcome.config
  IN IF ~existsSync(fs, CONFIG_FILE)
     THEN fail(fs, "Missing " \o CONFIG_FILE \o " in current directory")
     ELSE Parsed(parseConfig(fs[CONFIG_FILE].s))

\* the file is written whether it is there or not
cmdInit_Overwrite(fs, arg) ==
  [files |-> writeFileSync(fs, CONFIG_FILE,
                           JSONstringifyIndented(createTemplate(Or(arg, Str("MyApp"))), "")),
   exit |-> 0,
   stdout |-> <<log("Created " \o CONFIG_FILE)>>,
   stderr |-> <<>>]

\* lines 70-86
cmdInit(fs, arg) ==
  IF existsSync(fs, CONFIG_FILE)
  THEN fail(fs, CONFIG_FILE \o " already exists")
  ELSE [files |-> writeFileSync(fs, CONFIG_FILE,
                                JSONstringifyIndented(
                                  createTemplate(Or(arg, Str("MyApp"))), "")),
        exit |-> 0,
        stdout |-> <<log("Created " \o CONFIG_FILE)>>,
        stderr |-> <<>>]

\* lines 88-97
cmdValidate(fs) ==
  LET Validated(outcome) ==
        IF ~outcome.valid
        THEN fail(fs, "Config invalid:\n- " \o join(outcome.errors, "\n- "))
        ELSE [files |-> fs, exit |-> 0, stdout |-> <<log("Config is valid")>>,
              stderr |-> <<>>]
      Loaded(config) ==
        IF Exited(config) THEN config ELSE Validated(validateConfig(config))
  IN Loaded(readConfig(fs))

\* lines 99-107 with writeBadge (53-56) and printSnippets (58-64); an
\* exception that is not caught ends the process with code 1
cmdGenerate(fs) ==
  LET Printed(written, snippets) ==
        IF Raised(snippets)
        THEN [files |-> written, exit |-> 1,
              stdout |-> <<log("Generated " \o BADGE_FILE)>>,
              stderr |-> <<snippets.message>>]
        ELSE [files |-> written, exit |-> 0,
              stdout |-> <<log("Generated " \o BADGE_FILE),
                           "\n--- Markdown ---\n", snippets.markdown,
                           "\n--- HTML ---\n", snippets.html>>,
              stderr |-> <<>>]
      Drawn(config, svg) ==
        IF Raised(svg)
        THEN [files |-> fs, exit |-> 1, stdout |-> <<>>, stderr |-> <<svg.message>>]
        ELSE Printed(writeFileSync(fs, BADGE_FILE, svg.s),
                     generateSnippets(config, Undef, Undef))
      Loaded(config) ==
        IF Exited(config) THEN config ELSE Drawn(config, generateBadge(config))
  IN Loaded(readConfig(fs))

\* lines 124-144: any other command prints the usage
cmdHelp(fs) ==
  [files |-> fs, exit |-> 0,
   stdout |-> <<"\nInstall Bridge\n\nUsage:\n"
                \o "  install-bridge init [AppName]   Create install-bridge.json\n"
                \o "  install-bridge validate         Validate configuration\n"
                \o "  install-bridge generate         Generate badge and snippets\n"
                \o "\nFiles:\n  - install-bridge.json\n  - install-badge.svg\n">>,
   stderr |-> <<>>]

(***************************************************************************)
(* The inputs the calls are made on.                                       *)
(***************************************************************************)
RECURSIVE MapsOfLen(_, _, _)
\* the property lists of n entries with distinct keys, in every order
MapsOfLen(keys, values, n) ==
  IF n = 0 THEN {<<>>}
  ELSE UNION {{Append(m, Prop(k, v)) :
                 k \in {kk \in keys : ~HasKey(m, kk)}, v \in values} :
              m \in MapsOfLen(keys, values, n - 1)}

Maps(keys, values) == UNION {MapsOfLen(keys, values, n) : n \in 0..MaxKeys}

\* a property when the value is there, nothing when it is absent
Field(k, v) == IF v = Undef THEN <<>> ELSE <<Prop(k, v)>>

MkConfig(name, installers, homepage, fallback) ==
  Obj(Field("name", name) \o Field("installers", installers)
      \o Field("homepage", homepage) \o Field("fallback", fallback))

GoodURL == "https://example.com/app.dmg"
FileURL == "file:///path/to/app.dmg"
HomeURL == "https://example.com"
FallbackURL == "https://example.com/download"

NameChoices == {Undef, Str(""), Str("TestApp"), Num(7)}

InstallerKeys == {"darwin", "unknown", "windows"}
InstallerValues == {Str(GoodURL), Str(FileURL), Str("not a url"), Num(1)}

InstallersChoices ==
  {Undef, Null, Str("x"), Num(1), Arr(<<>>), Arr(<<Str(GoodURL)>>)}
  \cup {Obj(m) : m \in Maps(InstallerKeys, InstallerValues)}

\* what validateConfig is called on
Candidates ==
  {Undef, Null, Num(0), Num(5), Str(""), Str("text"), Bool(FALSE), Bool(TRUE), Arr(<<>>)}
  \cup {MkConfig(n, i, h, Undef) :
          n \in NameChoices, i \in InstallersChoices, h \in {Undef, Str(HomeURL)}}
  \cup {Obj(Field("name", n) \o Field("installers", i)
             \o <<Prop("homepage", Str("not a url")), Prop("fallback", Num(1)),
                  Prop("badge", Str("x"))>>) :
          n \in {Undef, Str("TestApp")},
          i \in {Undef, Obj(<<Prop("darwin", Str(GoodURL))>>)}}

\* what getInstallTarget is called on
TargetKeys == {"darwin", "linux", "unknown"}
TargetValues == {Str(GoodURL), Str("")}
TargetConfigs ==
  {MkConfig(Str("TestApp"), i, h, f) :
     i \in {Undef} \cup {Obj(m) : m \in Maps(TargetKeys, TargetValues)},
     h \in {Undef, Str(""), Str(HomeURL)},
     f \in {Undef, Null, Str(""), Str(FallbackURL)}}
Platforms == {"darwin", "win32", "linux", "unknown"}

\* what detectOS is called on
Fragments ==
  {"Mac", "DARWIN", "iPhone", "iPad", "Linux", "ANDROID", "Windows NT",
   "win", "Wi", "N", "dar", "x"}

RECURSIVE TextsOfLen(_)
TextsOfLen(n) ==
  IF n = 0 THEN {""}
  ELSE {t \o f : t \in TextsOfLen(n - 1), f \in Fragments}

UserAgents ==
  {Undef, Null} \cup {Str(t) : t \in UNION {TextsOfLen(n) : n \in 0..MaxFragments}}

\* the values that are serialized and handed to parseConfig
BadgeChoice == Obj(<<Prop("label", Str("Download")), Prop("color", Str("#ff0000"))>>)

Serializable ==
  {c \in Candidates : c # Undef /\ Get(c, "homepage") = Undef}
  \cup {Obj(<<Prop("name", Str("My \"App\"")),
              Prop("installers", Obj(m)),
              Prop("fallback", f),
              Prop("badge", b)>>) :
          m \in Maps({"darwin", "linux"}, {Str(GoodURL), Str("C:\\app.exe")}),
          f \in {Null, Str(""), Str(FallbackURL), Bool(TRUE)},
          b \in {Null, BadgeChoice, Arr(<<Num(-3), Str("a\tb")>>)}}

\* a text cut short by one character
Truncated(text) == SubSeq(text, 1, Len(text) - 1)

\* the texts handed to parseConfig as they are
Texts ==
  {"{ invalid json }", "", "{", "[1,]", "nul", "-", "'TestApp'", "\"TestApp",
   "{name:\"TestApp\"}", "{\"name\" \"TestApp\"}", "{\"name\":\"TestApp\",}",
   "{\"name\":\"TestApp\"} x", " 5 ", "[]", "\"text\"",
   "  {\"name\": \"TestApp\" }\n",
   "{\n  \"name\": \"TestApp\",\n  \"installers\": {\n    \"darwin\": \"https://example.com/app.dmg\"\n  }\n}",
   "{\"name\":\"A\",\"name\":\"\",\"installers\":{\"linux\":\"x\",\"windows\":\"y\"}}"}
  \cup {Truncated(JSONstringify(c)) :
          c \in {MkConfig(n, Obj(m), Undef, Undef) :
                   n \in {Str("TestApp"), Num(7)},
                   m \in Maps({"darwin", "windows"}, {Str(GoodURL), Num(1)})}}

\* what createTemplate is called on
AppNames ==
  {Undef, Str(""), Str("TestApp"), Str("My App"), Str("a/b?c#d"), Str("@x:y\\z"),
   Str(" \t"), Num(7)}

\* what generateSnippets is called on: every installer has its own URL
SnippetKeys == {"darwin", "win32", "linux", "windows"}

PlatformURL(platform) == "https://example.com/" \o platform

OwnURLs(m) ==
  [i \in 1..Len(m) |->
     IF m[i].v = Str("") THEN m[i] ELSE Prop(m[i].k, Str(PlatformURL(m[i].k)))]

SnippetConfigs ==
  {MkConfig(Str("TestApp"), i, h, Undef) :
     i \in {Undef, Null}
           \cup {Obj(OwnURLs(m)) : m \in Maps(SnippetKeys, {Str("url"), Str("")})},
     h \in {Undef, Str(""), Str(HomeURL)}}

BadgePaths == {Undef, Str("docs/badge.svg")}
InstallURLs == {Undef, Null, Str(""), Str("https://example.com/install")}

\* what generateBadge is called on
BadgeLabels == {Undef, Str(""), Str("Get"), Str("Download"), Num(5)}
BadgeColors == {Undef, Str("#ff0000")}
BadgeStyles == {Undef, Str(""), Str("flat"), Str("plastic")}

Badges ==
  {Undef, Null, Str("x")}
  \cup {Obj(Field("label", l) \o Field("color", c) \o Field("style", st)) :
          l \in BadgeLabels, c \in BadgeColors, st \in BadgeStyles}

BadgeConfigs ==
  {Obj(Field("name", n) \o Field("installers", i) \o Field("badge", b)) :
     n \in {Undef, Str("App"), Str("Tool"), Str("TestApp")},
     i \in {Undef, Obj(<<Prop("darwin", Str(GoodURL))>>)},
     b \in Badges}

\* the configs that clients encode into the config parameter
NewlineURL == "https://example.com/app.dmg\n"

ServedInstallers ==
  {Obj(OwnURLs(m)) : m \in Maps({"darwin", "linux"}, {Str("url")})}
  \cup {Obj(<<Prop("darwin", Str(NewlineURL))>>),
        Obj(<<Prop("win32", Str(GoodURL)), Prop("linux", Str("not a url"))>>)}

ServedConfigs ==
  {MkConfig(n, i, h, f) :
     n \in {Str("App")},
     i \in ServedInstallers,
     h \in {Undef, Str(HomeURL)},
     f \in {Undef, Str(""), Str(FallbackURL)}}
  \cup {MkConfig(Undef, Obj(<<Prop("darwin", Str(GoodURL))>>), Undef, Undef),
        Obj(<<Prop("name", Str("App")),
              Prop("installers", Obj(<<Prop("linux", Str(GoodURL))>>)),
              Prop("badge", Obj(<<Prop("label", Str("Get")),
                                  Prop("style", Str("plastic"))>>))>>)}

\* a payload of n bytes that is no JSON text, encoded
Filler(n) ==
  Repeat("QUFB", n \div 3)
  \o (CASE n % 3 = 0 -> "" [] n % 3 = 1 -> "QQ==" [] n % 3 = 2 -> "QUE=")

\* the values of the query parameter config
ConfigParams ==
  {Undef, Str(""), Arr(<<Str("e30="), Str("e30=")>>),
   Str("e30="), Str("e 3!0"), Str("!"), Str(toBase64("{ invalid json }")),
   Str(Filler(MAX_CONFIG_SIZE)), Str(Filler(MAX_CONFIG_SIZE + 1)),
   Str("e30=" \o Filler(MAX_CONFIG_SIZE))}
  \cup {Str(toBase64(JSONstringify(c))) : c \in ServedConfigs}

ClientAgents ==
  {Undef,
   Str("Mozilla/5.0 (Macintosh; Intel Mac OS X 10_15_7)"),
   Str("Mozilla/5.0 (Windows NT 10.0; Win64; x64)"),
   Str("Mozilla/5.0 (X11; Linux x86_64)")}

Requests ==
  {[method |-> "GET", pathname |-> "/install", config |-> c, userAgent |-> ua] :
     c \in ConfigParams, ua \in ClientAgents}
  \cup {[method |-> m, pathname |-> p, config |-> c, userAgent |-> Undef] :
          m \in {"GET"}, p \in {"/badge.svg"}, c \in ConfigParams}
  \cup {[method |-> m, pathname |-> p, config |-> c, userAgent |-> Undef] :
          m \in {"GET", "OPTIONS"}, p \in {"/", "/install", "/favicon.ico"},
          c \in {Undef, Str("e30=")}}

\* what process.argv[3] is when init is run
InitArgs == {Undef, Str("TestApp"), Str("My \"App\"")}

\* what the config file holds when it was not written by init
HandWritten ==
  {"{ invalid json }",
   "{}",
   "{\"name\": \"TestApp\", \"installers\": {\"windows\": \"https://example.com/app.exe\"}}",
   "{\"name\": \"TestApp\", \"installers\": {\"linux\": \"https://example.com/linux\"}}",
   "{\n  \"name\": \"TestApp\",\n  \"installers\": {\"darwin\": \"https://example.com/app.dmg\"},\n"
   \o "  \"badge\": {\"label\": \"Get\", \"style\": \"plastic\"}\n}\n"}

\* the files a first command may find
FilesAtStart ==
  {[name \in {CONFIG_FILE, BADGE_FILE} |->
      IF name = CONFIG_FILE THEN c ELSE b] :
     c \in {Undef} \cup {Str(text) : text \in HandWritten},
     b \in {Undef, Str("<svg/>")}}

(***************************************************************************)
(* The calls.                                                              *)
(***************************************************************************)
\* calls are synchronous: one is made only when no other is under way
Idle == call.fn = "none"

\* the core and the server read and write no file
Init ==
  /\ call = [fn |-> "none"]
  /\ result = Undef
  /\ files = NoFiles

ValidateConfig ==
  \E config \in Candidates :
    /\ Idle
    /\ call' = [fn |-> "validateConfig", config |-> config]
    /\ result' = validateConfig(config)
    /\ UNCHANGED files

DetectOS ==
  \E userAgent \in UserAgents :
    /\ Idle
    /\ call' = [fn |-> "detectOS", userAgent |-> userAgent]
    /\ result' = detectOS(userAgent)
    /\ UNCHANGED files

GetInstallTarget ==
  \E config \in TargetConfigs, os \in Platforms :
    /\ Idle
    /\ call' = [fn |-> "getInstallTarget", config |-> config, os |-> os]
    /\ result' = getInstallTarget(config, os)
    /\ UNCHANGED files

\* parseConfig on a text as it comes
ParseConfig ==
  \E jsonString \in Texts :
    /\ Idle
    /\ call' = [fn |-> "parseConfig", jsonString |-> jsonString, source |-> Undef]
    /\ result' = parseConfig(jsonString)
    /\ UNCHANGED files

\* parseConfig(JSON.stringify(source))
ParseSerialized ==
  \E source \in Serializable :
    /\ Idle
    /\ call' = [fn |-> "parseConfig", jsonString |-> JSONstringify(source),
                source |-> source]
    /\ result' = parseConfig(JSONstringify(source))
    /\ UNCHANGED files

CreateTemplate ==
  \E appName \in AppNames :
    /\ Idle
    /\ call' = [fn |-> "createTemplate", appName |-> appName]
    /\ result' = createTemplate(appName)
    /\ UNCHANGED files

GenerateSnippets ==
  \E config \in SnippetConfigs, badgePath \in BadgePaths, installURL \in InstallURLs :
    /\ Idle
    /\ call' = [fn |-> "generateSnippets", config |-> config,
                badgePath |-> badgePath, installURL |-> installURL]
    /\ result' = generateSnippets(config, badgePath, installURL)
    /\ UNCHANGED files

GenerateBadge ==
  \E config \in BadgeConfigs :
    /\ Idle
    /\ call' = [fn |-> "generateBadge", config |-> config]
    /\ result' = generateBadge(config)
    /\ UNCHANGED files

\* one request served by the router
HandleRequest ==
  \E req \in Requests :
    /\ Idle
    /\ call' = [fn |-> "handleRequest", req |-> req]
    /\ result' = handleRequest(req)
    /\ UNCHANGED files

\* the caller is done with the returned value; nothing of the call is kept
Return ==
  /\ ~Idle
  /\ call' = [fn |-> "none"]
  /\ result' = Undef
  /\ UNCHANGED files

Next ==
  \/ ValidateConfig
  \/ DetectOS
  \/ GetInstallTarget
  \/ ParseConfig
  \/ ParseSerialized
  \/ CreateTemplate
  \/ GenerateSnippets
  \/ GenerateBadge
  \/ HandleRequest
  \/ Return

Spec == Init /\ [][Next]_vars

(***************************************************************************)
(* The command line: one command after the other in the same directory.    *)
(***************************************************************************)
InitCLI ==
  /\ call = [fn |-> "none"]
  /\ result = Undef
  /\ files \in FilesAtStart

\* what a run leaves behind
Ran(argv, outcome) ==
  /\ call' = [fn |-> "install-bridge", argv |-> argv]
  /\ result' = [exit |-> outcome.exit, stdout |-> outcome.stdout,
                stderr |-> outcome.stderr]
  /\ files' = outcome.files

CmdInit == \E arg \in InitArgs : Ran(<<"init", arg>>, cmdInit(files, arg))

CmdValidate == Ran(<<"validate">>, cmdValidate(files))

CmdGenerate == Ran(<<"generate">>, cmdGenerate(files))

CmdHelp == \E command \in {"help", "--help", "badge"} : Ran(<<command>>, cmdHelp(files))

NextCLI ==
  \/ CmdInit
  \/ CmdValidate
  \/ CmdGenerate
  \/ CmdHelp

SpecCLI == InitCLI /\ [][NextCLI]_vars

(***************************************************************************)
(* Properties.                                                             *)
(***************************************************************************)
\* a non-null object
IsObject(v) == v.t \in {"object", "array"}

CountMentions(errors, text) ==
  Cardinality({i \in 1..Len(errors) : includes(errors[i], text)})

CanonicalPlatforms == {"darwin", "win32", "linux"}

\* the installers mapping getInstallTarget looks into: a missing one is empty
InstallerFor(config, p) ==
  IF IsObject(Get(config, "installers")) THEN Get(Get(config, "installers"), p) ELSE Undef

\* C1 as stated: available=true with url=installers[p] iff installers[p] is
\* set; otherwise available=false with fallback = fallback ?? homepage ?? null;
\* platform=p in both cases.
C1_SetAndNullish ==
  call.fn = "getInstallTarget" =>
    LET inst == InstallerFor(call.config, call.os)
        fb == Get(call.config, "fallback")
        hp == Get(call.config, "homepage")
    IN /\ result.platform = call.os
       /\ result.available = ~Nullish(inst)
       /\ result.available => result.url = inst
       /\ ~result.available =>
            result.fallback = (IF ~Nullish(fb) THEN fb ELSE IF ~Nullish(hp) THEN hp ELSE Null)

\* C1 amended: available=true with url=installers[p] iff installers[p] is
\* truthy (set and not the empty string); otherwise available=false with
\* fallback = fallback || homepage || null (the first of the two that is set
\* and not empty, else null); platform=p in both cases.
C1_TruthyInstallerAndFallback ==
  call.fn = "getInstallTarget" =>
    LET inst == InstallerFor(call.config, call.os)
        fb == Get(call.config, "fallback")
        hp == Get(call.config, "homepage")
    IN /\ result.platform = call.os
       /\ result.available = Truthy(inst)
       /\ result.available => (DOMAIN result = {"available", "platform", "url"} /\ result.url = inst)
       /\ ~result.available =>
            /\ DOMAIN result = {"available", "platform", "fallback"}
            /\ result.fallback = (IF Truthy(fb) THEN fb ELSE IF Truthy(hp) THEN hp ELSE Null)

\* an empty fallback next to a homepage: the homepage is what is returned
C1_Witness ==
  /\ call.fn = "getInstallTarget"
  /\ Get(call.config, "fallback") = Str("")
  /\ Get(call.config, "homepage") = Str(HomeURL)
  /\ ~result.available
  /\ result.fallback = Str(HomeURL)

\* C2: validateConfig returns valid = true iff it returns no errors.
C2_ValidIffNoErrors ==
  call.fn = "validateConfig" => (result.valid <=> Len(result.errors) = 0)

C2_Witness ==
  /\ call.fn = "validateConfig"
  /\ IsObject(call.config)
  /\ result.valid
  /\ result.errors = <<>>

\* C3: a candidate that is not a non-null object gets exactly
\* {valid:false, errors:["Config must be an object"]}.
C3_NotAnObjectSingleError ==
  (call.fn = "validateConfig" /\ ~IsObject(call.config)) =>
    result = [valid |-> FALSE, errors |-> <<"Config must be an object">>]

C3_Witness ==
  /\ call.fn = "validateConfig"
  /\ call.config = Null
  /\ result = [valid |-> FALSE, errors |-> <<"Config must be an object">>]

\* the name is absent, not a string, or the empty string
BadName(config) ==
  Get(config, "name").t # "string" \/ Get(config, "name") = Str("")

\* C4: an object config whose name is absent, not a string or empty is invalid
\* and has the name error, whatever installers holds.
C4_NameRequired ==
  (/\ call.fn = "validateConfig"
   /\ IsObject(call.config)
   /\ BadName(call.config)) =>
    /\ ~result.valid
    /\ SeqIncludes(result.errors, "name is required and must be a string")

\* a name that is a number, next to installers that are in order
C4_Witness ==
  /\ call.fn = "validateConfig"
  /\ Get(call.config, "name") = Num(7)
  /\ Get(call.config, "installers") = Obj(<<Prop("darwin", Str(GoodURL))>>)
  /\ result.errors = <<"name is required and must be a string">>

\* C5: installers absent or not an object gives the "installers" error,
\* installers with zero keys gives the "at least one" error, and in each case
\* that is the only one of the two.
C5_InstallersRequired ==
  (call.fn = "validateConfig" /\ IsObject(call.config)) =>
    LET installers == Get(call.config, "installers")
    IN /\ ~IsObject(installers) =>
            /\ ~result.valid
            /\ CountMentions(result.errors, "installers") = 1
            /\ CountMentions(result.errors, "at least one") = 0
       /\ (IsObject(installers) /\ ObjectKeys(installers) = <<>>) =>
            /\ ~result.valid
            /\ CountMentions(result.errors, "at least one") = 1
            /\ CountMentions(result.errors, "installers") = 0

C5_Witness ==
  /\ call.fn = "validateConfig"
  /\ Get(call.config, "name") = Str("TestApp")
  /\ Get(call.config, "installers") = Obj(<<>>)
  /\ result.errors = <<"at least one installer platform must be specified">>

\* C6: every installers key outside {darwin, win32, linux}, unknown included,
\* makes the config invalid with an "invalid platform" error naming the key,
\* even when its URL is well-formed.
C6_ClosedPlatformSet ==
  (/\ call.fn = "validateConfig"
   /\ IsObject(call.config)
   /\ IsObject(Get(call.config, "installers"))) =>
    LET keys == ObjectKeys(Get(call.config, "installers"))
    IN \A i \in 1..Len(keys) :
         keys[i] \notin CanonicalPlatforms =>
           /\ ~result.valid
           /\ \E j \in 1..Len(result.errors) :
                startsWith(result.errors[j], "invalid platform: " \o keys[i] \o " ")

\* the key unknown with a well-formed URL: the platform error is the only one
C6_Witness ==
  /\ call.fn = "validateConfig"
  /\ Get(call.config, "name") = Str("TestApp")
  /\ Get(call.config, "installers") = Obj(<<Prop("unknown", Str(GoodURL))>>)
  /\ result.errors = <<"invalid platform: unknown (must be darwin, win32, or linux)">>

ErrorsOfKey(installers, key) ==
  (IF key \notin CanonicalPlatforms THEN 1 ELSE 0)
  + (IF ~isValidURL(Get(installers, key)) THEN 1 ELSE 0)

RECURSIVE ErrorsBeforeKey(_, _)
\* how many errors the checks before the i-th installers key have to give
ErrorsBeforeKey(config, i) ==
  IF i = 1
  THEN (IF BadName(config) THEN 1 ELSE 0)
       + (IF ObjectKeys(Get(config, "installers")) = <<>> THEN 1 ELSE 0)
  ELSE ErrorsBeforeKey(config, i - 1)
       + ErrorsOfKey(Get(config, "installers"),
                     ObjectKeys(Get(config, "installers"))[i - 1])

\* C7: once the candidate is an object the errors accumulate: the name error
\* does not suppress the installers checks, every key is checked, each key
\* gets the platform check and the URL check (platform error first), and the
\* errors come in the key order of the mapping.
C7_ErrorsAccumulate ==
  (call.fn = "validateConfig" /\ IsObject(call.config)) =>
    LET installers == Get(call.config, "installers")
        keys == ObjectKeys(installers)
        errors == result.errors
    IN /\ BadName(call.config) =>
            (errors # <<>> /\ errors[1] = "name is required and must be a string")
       /\ ~IsObject(installers) =>
            Len(errors) = (IF BadName(call.config) THEN 2 ELSE 1)
       /\ IsObject(installers) =>
            /\ Len(errors) = ErrorsBeforeKey(call.config, Len(keys) + 1)
            /\ \A i \in 1..Len(keys) :
                 LET at == ErrorsBeforeKey(call.config, i)
                     n == ErrorsOfKey(installers, keys[i])
                 IN /\ keys[i] \notin CanonicalPlatforms =>
                         startsWith(errors[at + 1], "invalid platform: " \o keys[i] \o " ")
                    /\ ~isValidURL(Get(installers, keys[i])) =>
                         errors[at + n] = "installer for " \o keys[i] \o " must be a valid HTTP(S) URL"

\* a bad name, then a key that is an invalid platform with a malformed URL,
\* then a second key with a malformed URL: four errors
C7_Witness ==
  /\ call.fn = "validateConfig"
  /\ Get(call.config, "name") = Undef
  /\ Get(call.config, "installers") =
       Obj(<<Prop("windows", Str("not a url")), Prop("darwin", Num(1))>>)
  /\ result.errors =
       <<"name is required and must be a string",
         "invalid platform: windows (must be darwin, win32, or linux)",
         "installer for windows must be a valid HTTP(S) URL",
         "installer for darwin must be a valid HTTP(S) URL">>

\* s holds keyword, letter case apart, at some position
ContainsCI(s, keyword) ==
  \E i \in 1..(Len(s) - Len(keyword) + 1) :
    \A j \in 1..Len(keyword) : LowerOf(Char(s, i + j - 1)) = Char(keyword, j)

ContainsAnyCI(s, keywords) == \E k \in keywords : ContainsCI(s, k)

\* C8: detectOS returns unknown for empty, null or missing input, and for any
\* other string darwin if it contains mac, darwin, iphone or ipad, else linux
\* if it contains linux or android, else win32 if it contains win, else
\* unknown (letter case apart); the result is one of the four identifiers.
C8_FixedPriorityClassifier ==
  call.fn = "detectOS" =>
    LET ua == call.userAgent
    IN /\ result \in {"darwin", "linux", "win32", "unknown"}
       /\ (ua \in {Undef, Null, Str("")}) => result = "unknown"
       /\ (ua \notin {Undef, Null, Str("")}) =>
            /\ (result = "darwin") =
                 ContainsAnyCI(ua.s, {"mac", "darwin", "iphone", "ipad"})
            /\ (result = "linux") =
                 (/\ ~ContainsAnyCI(ua.s, {"mac", "darwin", "iphone", "ipad"})
                  /\ ContainsAnyCI(ua.s, {"linux", "android"}))
            /\ (result = "win32") =
                 (/\ ~ContainsAnyCI(ua.s, {"mac", "darwin", "iphone", "ipad"})
                  /\ ~ContainsAnyCI(ua.s, {"linux", "android"})
                  /\ ContainsCI(ua.s, "win"))

\* a user agent holding both linux and win: the linux rule wins
C8_Witness ==
  /\ call.fn = "detectOS"
  /\ call.userAgent = Str("LinuxWindows NT")
  /\ result = "linux"

\* C9: for a text that fails to deserialize parseConfig returns success=false,
\* one error that is "Invalid JSON: " followed by the message of the parser,
\* and no config.
C9_InvalidJSONSingleError ==
  (call.fn = "parseConfig" /\ ~JSONparse(call.jsonString).ok) =>
    /\ DOMAIN result = {"success", "errors"}
    /\ result.success = FALSE
    /\ Len(result.errors) = 1
    /\ startsWith(result.errors[1], "Invalid JSON: ")
    /\ result.errors[1] = "Invalid JSON: " \o JSONparse(call.jsonString).message

C9_Witness ==
  /\ call.fn = "parseConfig"
  /\ call.jsonString = "{ invalid json }"
  /\ result.success = FALSE
  /\ Len(result.errors) = 1
  /\ includes(result.errors[1], "Invalid JSON")

\* C10: parseConfig(serialize(c)) of a c that passes validateConfig is
\* success=true with a config equal to c; a text that deserializes to a value
\* validateConfig rejects gives success=false with the errors of validateConfig
\* in their order.
C10_ParseComposesValidation ==
  call.fn = "parseConfig" =>
    /\ (call.source # Undef /\ validateConfig(call.source).valid) =>
         result = [success |-> TRUE, config |-> call.source]
    /\ (/\ JSONparse(call.jsonString).ok
        /\ ~validateConfig(JSONparse(call.jsonString).value).valid) =>
         result = [success |-> FALSE,
                   errors |-> validateConfig(JSONparse(call.jsonString).value).errors]

\* a valid config with a quoted name, two installers, a fallback and a badge
\* comes back as it went in
C10_Witness ==
  /\ call.fn = "parseConfig"
  /\ call.source # Undef
  /\ Get(call.source, "name") = Str("My \"App\"")
  /\ Len(ObjectKeys(Get(call.source, "installers"))) = 2
  /\ Get(call.source, "badge") = BadgeChoice
  /\ result.success
  /\ result.config = call.source

\* C11: for every non-empty appName, createTemplate(appName) returns a config
\* whose name is appName, with exactly one installer for each of darwin, win32
\* and linux, and validateConfig accepts it with no error.
C11_TemplateIsValid ==
  (call.fn = "createTemplate" /\ call.appName.t = "string" /\ call.appName.s # "") =>
    /\ Get(result, "name") = call.appName
    /\ IsObject(Get(result, "installers"))
    /\ {ObjectKeys(Get(result, "installers"))[i] :
          i \in 1..Len(ObjectKeys(Get(result, "installers")))} = CanonicalPlatforms
    /\ Len(ObjectKeys(Get(result, "installers"))) = 3
    /\ validateConfig(result) = [valid |-> TRUE, errors |-> <<>>]

\* a template was made for a name with a space in it
C11_Witness ==
  /\ call.fn = "createTemplate"
  /\ call.appName = Str("My App")
  /\ Get(Get(result, "installers"), "win32")
       = Str("https://github.com/user/repo/releases/latest/download/My App-windows.exe")

\* the two snippets written around a target and a badge path
SnippetsFor(name, path, target) ==
  [markdown |-> "[![Install " \o name \o "](" \o path \o ")](" \o target \o ")",
   html |-> "<a href=\"" \o target \o "\">\n  <img src=\"" \o path
            \o "\" alt=\"Install " \o name \o "\" />\n</a>"]

\* the canonical platforms in their priority order, and the place of each
Rank(p) == CASE p = "darwin" -> 1 [] p = "win32" -> 2 [] p = "linux" -> 3

\* the target of the resolution order, a value counting as given when Given(v)
TargetBy(Given(_), config, installURL) ==
  LET inst == Get(config, "installers")
      there == {p \in CanonicalPlatforms : Given(Get(inst, p))}
  IN IF Given(installURL) THEN installURL
     ELSE IF Given(Get(config, "homepage")) THEN Get(config, "homepage")
     ELSE IF there # {}
     THEN Get(inst, CHOOSE p \in there : \A q \in there : Rank(p) <= Rank(q))
     ELSE IF ObjectValues(inst) # <<>> /\ Given(ObjectValues(inst)[1])
     THEN ObjectValues(inst)[1]
     ELSE Null

NotNullish(v) == ~Nullish(v)

SnippetCall ==
  /\ call.fn = "generateSnippets"
  /\ Get(call.config, "installers") # Null

PathOf(c) == IF c.badgePath = Undef THEN "./install-badge.svg" ELSE c.badgePath.s

\* C12 as stated: the target is the installURL argument when it is there, else
\* the homepage when it is there, else the first installer there in the order
\* darwin, win32, linux, else the first value of the mapping, else null; both
\* snippets carry that target.
C12_PresentInOrder ==
  SnippetCall =>
    result = SnippetsFor(Get(call.config, "name").s, PathOf(call),
                         String(TargetBy(NotNullish, call.config,
                                         IF call.installURL = Undef THEN Null
                                         ELSE call.installURL)))

\* C12: the target is the first truthy one of: the installURL argument, the
\* homepage, the installers of darwin, win32, linux in that order whatever
\* the order of the keys, the first value of the mapping; null when none is;
\* the markdown and the html snippets carry that same target.
C12_TruthyInOrder ==
  SnippetCall =>
    result = SnippetsFor(Get(call.config, "name").s, PathOf(call),
                         String(TargetBy(Truthy, call.config,
                                         IF call.installURL = Undef THEN Null
                                         ELSE call.installURL)))

\* linux is listed before darwin, there is no homepage and no installURL, and
\* the link goes to the darwin installer
C12_Witness ==
  /\ call.fn = "generateSnippets"
  /\ call.installURL = Undef
  /\ Get(call.config, "homepage") = Undef
  /\ ObjectKeys(Get(call.config, "installers")) = <<"linux", "darwin">>
  /\ result.markdown
       = "[![Install TestApp](./install-badge.svg)](https://example.com/darwin)"
  /\ includes(result.html, "<a href=\"https://example.com/darwin\">")

\* a call of generateBadge on a validated config whose badge, when there is
\* one, is an object with a string label
BadgeCall ==
  /\ call.fn = "generateBadge"
  /\ validateConfig(call.config).valid
  /\ Get(call.config, "badge").t \in {"undefined", "null", "object"}
  /\ Get(Get(call.config, "badge"), "label").t \in {"undefined", "null", "string"}

\* the flat layout is drawn when no other style is asked for
FlatLayout(config) ==
  LET style == Get(Get(config, "badge"), "style")
  IN ~Truthy(style) \/ style = Str("flat")

\* the svg is totalWidth wide and its name segment starts at labelWidth, for
\* the widths of a label and a name
WidthsIn(svg, flat, label, name) ==
  LET lw == ToString(Len(label) * 6 + 10)
      nw == ToString(Len(name) * 7 + 10)
      tw == ToString((Len(label) * 6 + 10) + (Len(name) * 7 + 10))
  IN /\ startsWith(svg, "<svg xmlns=\"http://www.w3.org/2000/svg\" width=\""
                        \o tw \o "\" height=\"20\">")
     /\ IF flat
        THEN /\ includes(svg, " d=\"M0 0h" \o lw \o "v20H0z\"")
             /\ includes(svg, " d=\"M" \o lw \o " 0h" \o nw \o "v20H" \o lw \o "z\"")
        ELSE /\ includes(svg, "<rect width=\"" \o lw \o "\" height=\"20\"")
             /\ includes(svg, "<rect x=\"" \o lw \o "\" width=\"" \o nw \o "\"")

\* C13 as stated: the label is badge.label, or "Install" when badge or
\* badge.label is absent; labelWidth = len(label)*6 + 10, nameWidth =
\* len(name)*7 + 10, the svg is labelWidth + nameWidth wide and the name segment
\* starts at labelWidth, in the flat and in the other layout.
C13_WidthsOfLabelWhenThere ==
  BadgeCall =>
    LET given == Get(Get(call.config, "badge"), "label")
    IN /\ result.t = "string"
       /\ WidthsIn(result.s, FlatLayout(call.config),
                   IF Nullish(given) THEN "Install" ELSE given.s,
                   Get(call.config, "name").s)

\* C13: the label is badge.label when it is a non-empty string, "Install" when
\* badge or badge.label is absent or empty; labelWidth = len(label)*6 + 10,
\* nameWidth = len(name)*7 + 10, the svg is labelWidth + nameWidth wide and the
\* name segment starts at labelWidth, in the flat and in the other layout.
C13_WidthsOfLabelWhenNotEmpty ==
  BadgeCall =>
    LET given == Get(Get(call.config, "badge"), "label")
    IN /\ result.t = "string"
       /\ WidthsIn(result.s, FlatLayout(call.config),
                   IF Truthy(given) THEN given.s ELSE "Install",
                   Get(call.config, "name").s)

\* a badge with the label Download drawn in a style other than flat
C13_Witness ==
  /\ BadgeCall
  /\ Get(call.config, "name") = Str("TestApp")
  /\ Get(Get(call.config, "badge"), "label") = Str("Download")
  /\ Get(Get(call.config, "badge"), "style") = Str("plastic")
  /\ startsWith(result.s, "<svg xmlns=\"http://www.w3.org/2000/svg\" width=\"117\"")
  /\ includes(result.s, "<rect x=\"58\" width=\"59\"")
  /\ includes(result.s, "<text x=\"87.5\" y=\"14\"")

\* C14: on a config that passes validateConfig, whatever optional fields are
\* absent, getInstallTarget, generateBadge and generateSnippets return a
\* result and raise nothing; getInstallTarget returns fallback = null when
\* the platform has no installer and neither fallback nor homepage is there.
C14_NoRaiseOnValidated ==
  (/\ call.fn \in {"getInstallTarget", "generateBadge", "generateSnippets"}
   /\ validateConfig(call.config).valid) =>
    /\ ~Raised(result)
    /\ call.fn = "generateBadge" => result.t = "string"
    /\ call.fn = "generateSnippets" => DOMAIN result = {"markdown", "html"}
    /\ (/\ call.fn = "getInstallTarget"
        /\ Nullish(Get(call.config, "fallback"))
        /\ Nullish(Get(call.config, "homepage"))
        /\ Nullish(Get(Get(call.config, "installers"), call.os))) =>
         result = [available |-> FALSE, platform |-> call.os, fallback |-> Null]

\* a badge was drawn for a validated config that has no badge field
C14_Witness ==
  /\ call.fn = "generateBadge"
  /\ validateConfig(call.config).valid
  /\ Get(call.config, "badge") = Undef
  /\ ~Raised(result)
  /\ includes(result.s, ">Install</text>")

\* what the optional fields are set to
OptionalURLs == {Undef, Str("not a url"), Num(1)}
OptionalBadges ==
  {Undef, Str("x"), Obj(<<Prop("label", Num(5)), Prop("style", Null)>>)}

RECURSIVE Without(_, _)
\* the properties other than those of the given keys
Without(props, keys) ==
  IF props = <<>> THEN <<>>
  ELSE (IF Head(props).k \in keys THEN <<>> ELSE <<Head(props)>>)
       \o Without(Tail(props), keys)

\* the config with its optional fields set anew
WithOptional(config, homepage, fallback, badge) ==
  Obj(Field("badge", badge)
      \o Without(config.props, {"homepage", "fallback", "badge"})
      \o Field("homepage", homepage) \o Field("fallback", fallback))

\* C19: the result of validateConfig on an object config is the result on
\* every config with the same name and installers, whatever homepage,
\* fallback and badge are: there or not, URL strings or not.
C19_OptionalFieldsIgnored ==
  (call.fn = "validateConfig" /\ call.config.t = "object") =>
    \A h \in OptionalURLs, f \in {Undef, Str("not a url")}, b \in OptionalBadges :
      LET other == WithOptional(call.config, h, f, b)
      IN /\ Get(other, "name") = Get(call.config, "name")
         /\ Get(other, "installers") = Get(call.config, "installers")
         /\ validateConfig(other) = result

\* a config whose homepage is no URL, whose fallback is a number and whose
\* badge is a string was found valid, like the same config without them
C19_Witness ==
  /\ call.fn = "validateConfig"
  /\ Get(call.config, "homepage") = Str("not a url")
  /\ Get(call.config, "fallback") = Num(1)
  /\ Get(call.config, "badge") = Str("x")
  /\ result = [valid |-> TRUE, errors |-> <<>>]
  /\ validateConfig(WithOptional(call.config, Undef, Undef, Undef)) = result

\* a GET request for one of the two paths that take a config
ConfigRequest(paths) ==
  /\ call.fn = "handleRequest"
  /\ call.req.method = "GET"
  /\ call.req.pathname \in paths

\* the parameter is there: a non-empty string
HasParam(req) == req.config.t = "string" /\ req.config.s # ""

\* the number of bytes the parameter decodes to
DecodedSize(req) == BufferLength(Sextets(req.config.s))

\* the text the parameter decodes to
DecodedText(req) == BufferText(Sextets(req.config.s), 0, DecodedSize(req) - 1)

CarriesValidConfig(req) ==
  /\ HasParam(req)
  /\ DecodedSize(req) <= 8192
  /\ parseConfig(DecodedText(req)).success

Redirects(response, location) ==
  /\ response.status = 302
  /\ "Location" \in DOMAIN response.headers
  /\ response.headers["Location"] = location

\* C15: every /install request that carries a valid config is answered with
\* exactly one response, chosen from the resolved target: a 302 to target.url
\* when available, a 302 to the fallback when not available and a fallback
\* exists, a 200 HTML page with the download link of every configured
\* platform when not available and there is no fallback; never a redirect to
\* the fallback when the detected platform has an installer.
C15_OneResponseFromTarget ==
  (ConfigRequest({"/install"}) /\ CarriesValidConfig(call.req)) =>
    LET config == parseConfig(DecodedText(call.req)).config
        os == detectOS(Or(call.req.userAgent, Str("")))
        target == getInstallTarget(config, os)
        installers == Get(config, "installers")
    IN /\ Len(result.sent) = 1
       /\ IF target.available
          THEN Redirects(result.sent[1], target.url.s)
          ELSE IF target.fallback # Null
          THEN Redirects(result.sent[1], String(target.fallback))
          ELSE /\ result.sent[1].status = 200
               /\ result.sent[1].headers["Content-Type"] = "text/html; charset=utf-8"
               /\ \A i \in 1..Len(ObjectKeys(installers)) :
                    includes(result.sent[1].body,
                             "href=\"" \o Get(installers, ObjectKeys(installers)[i]).s
                             \o "\">Download for ")
       /\ Truthy(Get(installers, os)) =>
            Redirects(result.sent[1], Get(installers, os).s)

\* C16: the size check comes before parsing: a request whose decoded config
\* is longer than 8192 bytes is answered with 400 and parseConfig is not
\* called for it; parseConfig is called only on payloads of at most 8192 bytes.
C16_SizeCheckedBeforeParsing ==
  ConfigRequest({"/badge.svg", "/install"}) =>
    /\ (HasParam(call.req) /\ DecodedSize(call.req) > 8192) =>
         /\ Len(result.sent) = 1
         /\ result.sent[1].status = 400
         /\ result.calls = <<>>
    /\ \A i \in 1..Len(result.calls) :
         result.calls[i].fn = "parseConfig" =>
           /\ Len(result.calls[i].arg) <= 8192
           /\ HasParam(call.req)
           /\ DecodedSize(call.req) <= 8192

\* a payload of 8193 bytes was refused unparsed
C16_Witness ==
  /\ ConfigRequest({"/badge.svg", "/install"})
  /\ HasParam(call.req)
  /\ DecodedSize(call.req) = 8193
  /\ result.calls = <<>>
  /\ result.sent[1].status = 400
  /\ result.sent[1].body = "Config too large"

\* a payload of exactly 8192 bytes reached parseConfig
C16_AtTheLimit ==
  /\ ConfigRequest({"/badge.svg", "/install"})
  /\ HasParam(call.req)
  /\ DecodedSize(call.req) = 8192
  /\ Len(result.calls) = 1
  /\ result.calls[1].fn = "parseConfig"
  /\ Len(result.calls[1].arg) = 8192

\* C18: a /badge.svg or /install request whose config parameter is missing, or
\* whose decoded text fails parseConfig, is answered with 400 and plain text,
\* never with a 302, a 200 badge or the 200 page, and detectOS,
\* getInstallTarget and generateBadge are not reached for it.
C18_BadConfigIs400 ==
  (/\ ConfigRequest({"/badge.svg", "/install"})
   /\ \/ ~HasParam(call.req)
      \/ /\ DecodedSize(call.req) <= 8192
         /\ ~parseConfig(DecodedText(call.req)).success) =>
    /\ Len(result.sent) = 1
    /\ result.sent[1].status = 400
    /\ result.sent[1].headers["Content-Type"] = "text/plain"
    /\ \A i \in 1..Len(result.calls) :
         result.calls[i].fn \notin {"detectOS", "getInstallTarget", "generateBadge"}

\* an /install request whose config is the text {} was answered 400 with the
\* errors of the validation
C18_Witness ==
  /\ ConfigRequest({"/install"})
  /\ call.req.config = Str("e30=")
  /\ result.sent[1].status = 400
  /\ result.sent[1].body
       = "Invalid config: name is required and must be a string, "
         \o "installers is required and must be an object"
  /\ Len(result.calls) = 1

\* the command of the run that ends in the next state
Running(command) == call'.fn = "install-bridge" /\ call'.argv[1] = command

\* the config file holds a text that parses and validates
ConfigFileGood(fs) ==
  /\ fs["install-bridge.json"] # Undef
  /\ parseConfig(fs["install-bridge.json"].s).success

\* C20: in every run of a command, init leaves an existing install-bridge.json
\* as it is and fails; generate writes install-badge.svg only when the config
\* file was found, parsed and validated; validate writes no file; and nothing
\* else changes a file.
C20_CliWritesOnlyWhenDue ==
  [][/\ (Running("init") /\ files["install-bridge.json"] # Undef) =>
          (files' = files /\ result'.exit = 1)
     /\ Running("validate") => files' = files
     /\ (files'["install-badge.svg"] # files["install-badge.svg"]) =>
          (Running("generate") /\ ConfigFileGood(files))
     /\ (Running("generate") /\ ~ConfigFileGood(files)) =>
          (files' = files /\ result'.exit = 1)
     /\ (files'["install-bridge.json"] # files["install-bridge.json"]) =>
          (Running("init") /\ files["install-bridge.json"] = Undef)]_vars

\* init was run where a hand-written config file is, failed, and the file
\* is as it was
C20_Witness ==
  /\ call.fn = "install-bridge"
  /\ call.argv[1] = "init"
  /\ result.exit = 1
  /\ result.stderr = <<"[x] install-bridge.json already exists">>
  /\ files["install-bridge.json"] = Str("{}")

====
